---- MODULE Spec2Model ----
(***************************************************************************)
(* Model of the aikit packager: the layout assembler scripts generated by  *)
(* generateModelpackScript / generateGenericScript (pkg/packager) and the  *)
(* frontend handlers BuildModelpack / BuildGeneric with parseBuildConfig,  *)
(* resolveSourceState and inference.ParseHuggingFaceSpec.                  *)
(*                                                                         *)
(* Strings are TLA+ strings handled character by character (SubSeq), so    *)
(* prefixes, basenames, globs, sorting and number formatting are computed  *)
(* the way the shell and Go code compute them.                             *)
(***************************************************************************)
EXTENDS Integers, Sequences, FiniteSets, TLC

(***************************************************************************)
(* Bounds of the model.                                                    *)
(***************************************************************************)
\* largest number of files in the mounted source tree
MaxFiles == 2

\* longest exclude string enumerated character by character
MaxExcludeLen == 4

\* longest pattern quoted into an exclude string
MaxPatternLen == 2

(***************************************************************************)
(* String helpers (Go strings / path package, shell parameter expansion).  *)
(***************************************************************************)
Chr(s, i) == SubSeq(s, i, i)

\* strings.HasPrefix
HasPrefix(s, p) == Len(s) >= Len(p) /\ SubSeq(s, 1, Len(p)) = p

\* strings.HasSuffix
HasSuffix(s, x) == Len(s) >= Len(x) /\ SubSeq(s, Len(s) - Len(x) + 1, Len(s)) = x

\* strings.TrimPrefix, and the shell's ${f#./}
TrimPrefix(s, p) == IF HasPrefix(s, p) THEN SubSeq(s, Len(p) + 1, Len(s)) ELSE s

\* strings.Contains / grep -F: x occurs somewhere in s
Contains(s, x) == \E k \in 1..(Len(s) - Len(x) + 1) : SubSeq(s, k, k + Len(x) - 1) = x

\* strings.Count(s, c) for a one-character c
Count(s, c) == Cardinality({k \in 1..Len(s) : Chr(s, k) = c})

\* position of the first / last occurrence of the character c, 0 when absent
IndexOf(s, c) ==
    IF \E k \in 1..Len(s) : Chr(s, k) = c
    THEN CHOOSE k \in 1..Len(s) : Chr(s, k) = c /\ \A j \in 1..(k - 1) : Chr(s, j) # c
    ELSE 0

LastIndexOf(s, c) ==
    IF \E k \in 1..Len(s) : Chr(s, k) = c
    THEN CHOOSE k \in 1..Len(s) : Chr(s, k) = c /\ \A j \in (k + 1)..Len(s) : Chr(s, j) # c
    ELSE 0

\* basename(1) of a path that names a file (no trailing slash)
Basename(f) == SubSeq(f, LastIndexOf(f, "/") + 1, Len(f))

\* dirname(1) of a relative path that names a file
Dirname(f) == IF LastIndexOf(f, "/") = 0 THEN "." ELSE SubSeq(f, 1, LastIndexOf(f, "/") - 1)

UpperChars == "ABCDEFGHIJKLMNOPQRSTUVWXYZ"
LowerChars == "abcdefghijklmnopqrstuvwxyz"

\* tr A-Z a-z on one character
UpperSet == {Chr(UpperChars, k) : k \in 1..Len(UpperChars)}

LowerChar(c) ==
    IF c \notin UpperSet THEN c ELSE Chr(LowerChars, IndexOf(UpperChars, c))

RECURSIVE ToLower(_)
ToLower(s) == IF s = "" THEN "" ELSE LowerChar(Head(s)) \o ToLower(Tail(s))

\* shell pattern matching of a case arm: literal characters and "*"
RECURSIVE GlobMatch(_, _)
GlobMatch(p, s) ==
    IF p = "" THEN s = ""
    ELSE IF Head(p) = "*"
         THEN \E k \in 0..Len(s) : GlobMatch(Tail(p), SubSeq(s, k + 1, Len(s)))
         ELSE s # "" /\ Head(s) = Head(p) /\ GlobMatch(Tail(p), Tail(s))

MatchesAny(pats, s) == \E k \in 1..Len(pats) : GlobMatch(pats[k], s)

\* byte order of the characters that occur in names and list lines (LC_ALL=C)
AsciiChars == "*-./0123456789:@ABCDEFGHIJKLMNOPQRSTUVWXYZ_abcdefghijklmnopqrstuvwxyz{|}"

Ord(c) == IndexOf(AsciiChars, c)

\* strcmp order of two lines
RECURSIVE ByteLess(_, _)
ByteLess(a, b) ==
    IF b = "" THEN FALSE
    ELSE IF a = "" THEN TRUE
    ELSE IF Head(a) = Head(b) THEN ByteLess(Tail(a), Tail(b))
    ELSE Ord(Head(a)) < Ord(Head(b))

\* LC_ALL=C sort of a set of distinct lines
RECURSIVE SortLines(_)
SortLines(S) ==
    IF S = {} THEN <<>>
    ELSE LET m == CHOOSE x \in S : \A y \in S \ {x} : ByteLess(x, y)
         IN  <<m>> \o SortLines(S \ {m})

Digits == "0123456789"

\* decimal string to number, as the shell's arithmetic reads $sz
RECURSIVE ParseInt(_)
ParseInt(s) ==
    IF s = "" THEN 0
    ELSE 10 * ParseInt(SubSeq(s, 1, Len(s) - 1)) + (IndexOf(Digits, Chr(s, Len(s))) - 1)

\* IFS='|' read -r f sz / cut -d'|' -f1 and -f2-
Field1(line) == IF IndexOf(line, "|") = 0 THEN line ELSE SubSeq(line, 1, IndexOf(line, "|") - 1)
FieldRest(line) == IF IndexOf(line, "|") = 0 THEN "" ELSE SubSeq(line, IndexOf(line, "|") + 1, Len(line))

Range(seq) == {seq[k] : k \in 1..Len(seq)}

RECURSIVE SumSeq(_)
SumSeq(seq) == IF seq = <<>> THEN 0 ELSE Head(seq) + SumSeq(Tail(seq))

(***************************************************************************)
(* The mounted source tree.  A tree is a set of at most MaxFiles of the    *)
(* paths below; a path's bytes are named by a content id, and ByteSize     *)
(* gives the length stat -c%s reports for them.  Two paths with the same   *)
(* content id are byte-identical files.                                    *)
(***************************************************************************)
largeFileThreshold == 10485760

ByteSize(c) ==
    CASE c = "c1"   -> 7
      [] c = "c2"   -> 9
      [] c = "{}"   -> 2
      [] c = "big0" -> largeFileThreshold
      [] c = "big1" -> largeFileThreshold + 1

SourceFiles ==
    << [path |-> "a/b.bin",      content |-> "c1"],
       [path |-> "b.bin",        content |-> "c2"],
       [path |-> "README.txt",   content |-> "c1"],
       [path |-> "config.json",  content |-> "{}"],
       [path |-> "readme.bin",   content |-> "c1"],
       [path |-> "x.py",         content |-> "c1"],
       [path |-> "t.csv",        content |-> "c2"],
       [path |-> "u.dat",        content |-> "big1"],
       [path |-> "v.dat",        content |-> "big0"],
       [path |-> "files.list",   content |-> "c1"],
       [path |-> "m.lock",       content |-> "c1"],
       [path |-> ".cache/k.bin", content |-> "c2"] >>

Paths == {SourceFiles[k].path : k \in 1..Len(SourceFiles)}

ContentOf(f) == (CHOOSE r \in Range(SourceFiles) : r.path = f).content

Trees == {t \in SUBSET Paths : Cardinality(t) <= MaxFiles}

\* modification times the mounted files can carry in a run (seconds since the
\* epoch): the bytes of a file do not determine its timestamp
Mtimes == {0, 1}

PackModes == {"raw", "tar", "tar+gzip", "tar+zstd"}

\* values of PACK_MODE the script can be generated with: parseBuildConfig
\* passes layer_packaging through unchecked
PackModeArgs == PackModes \cup {"zip"}

\* the (name, refName) pairs determineName / determineRefName produce when no
\* name is given and when one is; the scripts only substitute the two strings
NameArgs == {<<"aikitmodel", "latest">>, <<"my\"model", "my\"model">>}

Categories == <<"weights", "config", "docs", "code", "dataset">>

VARIABLES
    flavor,      \* "modelpack" or "generic": which script runs
    packMode,    \* PACK_MODE
    name,        \* title annotation substituted into the script
    refName,     \* ref.name annotation substituted into the script
    src,         \* paths of the files mounted at /src
    mtime,       \* modification time of the mounted files in this run
    pc,          \* position of the script
    emitted,     \* lines written so far by the xargs stat workers
    sorted,      \* /tmp/allfiles_with_size.list (files_with_size.list)
    lists,       \* /tmp/<category>.list, and /tmp/files.list under "files"
    cache,       \* /tmp/file_sizes.cache
    cat,         \* index of the category add_category is processing
    pos,         \* lines of the current list consumed by the while loop
    offset,      \* byte offset of the loop's read descriptor
    clobber,     \* content id now held by the file the loop reads, or "none"
    tmpFiles,    \* scratch files that exist under /tmp
    layers,      \* layers_json, one record per appended layer
    blobs,       \* /layout/blobs/sha256: digest -> file
    manifest,    \* /tmp/manifest.json
    index,       \* /layout/index.json
    marker,      \* /layout/oci-layout exists
    result,      \* what solveAndBuildResult returned to the caller
    prevOut,     \* blobs and index.json of the previous run of the same build
    image        \* how the builder image's cp and tar behave, once observed

asmVars == <<flavor, packMode, name, refName, src, mtime, pc, emitted, sorted, lists,
             cache, cat, pos, offset, clobber, tmpFiles, layers, blobs, manifest,
             index, marker, result, prevOut, image>>

VARIABLES
    entry,       \* the function of the package that was called
    opts,        \* c.BuildOpts().Opts: a set of <<key, value>> pairs
    session,     \* c.BuildOpts().SessionID
    resolveArgs, \* arguments of the resolveSourceState / buildHuggingFaceState call
    fpc,         \* position of the call: "entry", "solving" or "returned"
    cfg,         \* what parseBuildConfig returned
    srcState,    \* what resolveSourceState / buildHuggingFaceState returned
    graph,       \* the final llb.State handed to solveAndBuildResult
    solves,      \* number of c.Solve calls made
    ret          \* what the called function returned

feVars == <<entry, opts, session, resolveArgs, fpc, cfg, srcState, graph, solves, ret>>

NoFile == [written |-> FALSE]

EmptyLists ==
    [weights |-> <<>>, config |-> <<>>, docs |-> <<>>, code |-> <<>>, dataset |-> <<>>,
     files |-> <<>>]

\* a fresh builder container at the start of the script
FreshContainer ==
    /\ pc = "init"
    /\ emitted = <<>>
    /\ sorted = <<>>
    /\ lists = EmptyLists
    /\ cache = <<>>
    /\ cat = 0
    /\ pos = 0
    /\ offset = 0
    /\ clobber = "none"
    /\ tmpFiles = {}
    /\ layers = <<>>
    /\ blobs = <<>>
    /\ manifest = NoFile
    /\ index = NoFile
    /\ marker = FALSE
    /\ result = [kind |-> "none"]

InitAsm ==
    /\ flavor \in {"modelpack", "generic"}
    /\ packMode \in PackModeArgs
    /\ src \in Trees
    \* the names reach only the index text: a supplied name is run with the
    \* trees of at most one file
    /\ \E n \in NameArgs : /\ name = n[1]
                           /\ refName = n[2]
                           /\ n[1] # "aikitmodel" => Cardinality(src) <= 1
    /\ mtime = 0
    /\ prevOut = [set |-> FALSE]
    /\ image = [cp |-> "unknown", tarEmpty |-> "unknown"]
    /\ FreshContainer

(***************************************************************************)
(* Enumeration: find | xargs -P stat | sort.                               *)
(***************************************************************************)
\* find . -type f ! -name '*.lock' ! -path './.cache/*'
FindFiles(tree) ==
    {"./" \o f : f \in {g \in tree : /\ ~GlobMatch("*.lock", Basename(g))
                                     /\ ~GlobMatch("./.cache/*", "./" \o g)}}

\* echo "{}|$(stat -c%s "{}")" for one found path
StatLine(p) == p \o "|" \o ToString(ByteSize(ContentOf(TrimPrefix(p, "./"))))

\* sed 's|^\./||' (generic script only)
SedStrip(line) == TrimPrefix(line, "./")

\* the paths the script is about to package
Enumerated == {TrimPrefix(p, "./") : p \in FindFiles(src)}

(***************************************************************************)
(* File classification (modelpack script, the case statement).             *)
(***************************************************************************)
WeightPatterns  == <<"*.safetensors", "*.bin", "*.gguf", "*.pt", "*.ckpt">>
DocPatterns     == <<"readme*", "license*", "license", "*.md">>
ConfigPatterns  == <<"config.json", "tokenizer.json", "*tokenizer*.json",
                     "generation_config.json", "*.json", "*.txt">>
CodePatterns    == <<"*.py", "*.sh", "*.ipynb", "*.go", "*.js", "*.ts">>
DatasetPatterns == <<"*.csv", "*.tsv", "*.jsonl", "*.parquet", "*.arrow", "*.h5", "*.npz">>

\* SizeOverflow with -ge in place of -gt
SizeAtLeast(sz) == ParseInt(sz) >= largeFileThreshold

\* [ "$sz" -gt largeFileThreshold ]
SizeOverflow(sz) == ParseInt(sz) > largeFileThreshold

\* the list the case statement appends f to; sz is the size field of the line
Classify(f, sz) ==
    LET base == ToLower(Basename(f))
    IN  IF MatchesAny(WeightPatterns, base) THEN "weights"
        ELSE IF MatchesAny(DocPatterns, base) THEN "docs"
        ELSE IF MatchesAny(ConfigPatterns, base) THEN "config"
        ELSE IF MatchesAny(CodePatterns, base) THEN "code"
        ELSE IF MatchesAny(DatasetPatterns, base) THEN "dataset"
        ELSE IF SizeOverflow(sz) THEN "weights"
        ELSE "config"

(***************************************************************************)
(* Blob contents, digests and sizes.  A content is a tagged tuple:         *)
(*   <<"bytes", id>>              a file body                              *)
(*   <<"tar", members>>           members are <<name, id, mtime>>          *)
(*   <<"gzip", c>>, <<"zstd", c>> a compressed archive                     *)
(*   <<"manifest", m>>            the manifest text                        *)
(* sha256 is modelled as injective: the digest names the content.          *)
(***************************************************************************)
Sha256(c) == <<"sha256", c>>

\* TarOf with only the first listed file archived
TarOfFirstOnly(paths, names) ==
    <<"tar", [k \in 1..(IF paths = <<>> THEN 0 ELSE 1) |->
                 <<names[k], ContentOf(paths[k]), mtime>>]>>

\* tar -cf: one header and the body per member, then the end-of-archive blocks.
\* The header records the member's name and the file's modification time.
\* paths are the files read, names the member names they are stored under.
TarOf(paths, names) ==
    <<"tar", [k \in 1..Len(paths) |-> <<names[k], ContentOf(paths[k]), mtime>>]>>

RECURSIVE BlobSize(_)
BlobSize(c) ==
    CASE c[1] = "bytes"    -> ByteSize(c[2])
      [] c[1] = "tar"      -> 1024 + SumSeq([k \in 1..Len(c[2]) |-> 512 + ByteSize(c[2][k][2])])
      [] c[1] = "gzip"     -> 18 + BlobSize(c[2])
      [] c[1] = "zstd"     -> 13 + BlobSize(c[2])
      [] c[1] = "manifest" -> 400 + 300 * Len(c[2].layers)

\* gzip -n / zstd -q --no-progress of an archive, by pack mode
Compress(mode, tarContent) ==
    CASE mode = "tar"      -> tarContent
      [] mode = "tar+gzip" -> <<"gzip", tarContent>>
      [] mode = "tar+zstd" -> <<"zstd", tarContent>>

\* printf '{}' > /tmp/manifest-config.json (or /tmp/config.json)
EmptyConfig == <<"bytes", "{}">>

\* media types passed to add_category, by category and pack mode
ModelKind(c) ==
    CASE c = "weights" -> "weight"
      [] c = "config"  -> "weight.config"
      [] c = "docs"    -> "doc"
      [] c = "code"    -> "code"
      [] c = "dataset" -> "dataset"

ModelpackMediaType(c, mode) == "application/vnd.cncf.model." \o ModelKind(c) \o ".v1." \o mode

\* generateGenericScript: rawLayerMT / archiveLayerMT
GenericMediaType(mode) ==
    IF mode = "raw" THEN "application/octet-stream"
    ELSE "application/vnd.oci.image.layer.v1.tar"

\* get_cached_size: grep -F "$file|" cache | cut -d'|' -f2 | head -n1
GetCachedSize(file) ==
    LET hits == SelectSeq(cache, LAMBDA l : Contains(l, file \o "|"))
    IN  IF hits = <<>> THEN "" ELSE Field1(FieldRest(hits[1]))

\* fsize=$(get_cached_size "$f"); [ -z "$fsize" ] && fsize=$(stat -c%s "$f")
SizeFor(f) ==
    IF GetCachedSize(f) = "" THEN ToString(ByteSize(ContentOf(f))) ELSE GetCachedSize(f)

(***************************************************************************)
(* Steps of the assembler scripts.                                         *)
(***************************************************************************)
Running == pc \notin {"done", "failed"}

CategoryListFile(c) == "/tmp/" \o c \o ".list"

\* mkdir -p /layout/blobs/sha256; cd; the category lists are truncated and the
\* shell creates the pipeline's output file
Setup ==
    /\ pc = "init"
    /\ pc' = "stat"
    /\ tmpFiles' = IF flavor = "modelpack"
                   THEN {CategoryListFile(Categories[k]) : k \in 1..Len(Categories)}
                        \cup {"/tmp/allfiles_with_size.list"}
                   ELSE {"/tmp/files_with_size.list"}
    /\ UNCHANGED <<feVars, flavor, packMode, name, refName, src, mtime, emitted, sorted, lists,
                   cache, cat, pos, offset, clobber, layers, blobs, manifest, index,
                   marker, result, prevOut, image>>

\* one xargs -P worker finishes its stat and writes its line; the workers run
\* in parallel, so the lines arrive in any order
StatWorker ==
    /\ pc = "stat"
    /\ \E p \in FindFiles(src) :
          /\ StatLine(p) \notin Range(emitted)
          /\ emitted' = Append(emitted, StatLine(p))
    /\ UNCHANGED <<feVars, flavor, packMode, name, refName, src, mtime, pc, sorted, lists,
                   cache, cat, pos, offset, clobber, tmpFiles, layers, blobs, manifest,
                   index, marker, result, prevOut, image>>

\* SortFiles without the sort: the lines are kept in their order of arrival
SortFilesInArrivalOrder ==
    /\ pc = "stat"
    /\ Len(emitted) = Cardinality(FindFiles(src))
    /\ sorted' = IF flavor = "modelpack" THEN emitted
                 ELSE [k \in 1..Len(emitted) |-> SedStrip(emitted[k])]
    /\ pc' = IF flavor = "modelpack" THEN "classify" ELSE "cut"
    /\ UNCHANGED <<feVars, flavor, packMode, name, refName, src, mtime, emitted, lists,
                   cache, cat, pos, offset, clobber, tmpFiles, layers, blobs, manifest,
                   index, marker, result, prevOut, image>>

\* LC_ALL=C sort reads the pipe to its end, then writes the list
SortFiles ==
    /\ pc = "stat"
    /\ Len(emitted) = Cardinality(FindFiles(src))
    /\ sorted' = IF flavor = "modelpack"
                 THEN SortLines(Range(emitted))
                 ELSE SortLines({SedStrip(l) : l \in Range(emitted)})
    /\ pc' = IF flavor = "modelpack" THEN "classify" ELSE "cut"
    /\ UNCHANGED <<feVars, flavor, packMode, name, refName, src, mtime, emitted, lists,
                   cache, cat, pos, offset, clobber, tmpFiles, layers, blobs, manifest,
                   index, marker, result, prevOut, image>>

\* one iteration of the classification loop (modelpack)
ClassifyFile ==
    /\ pc = "classify"
    /\ pos < Len(sorted)
    /\ LET line == sorted[pos + 1]
           f    == TrimPrefix(Field1(line), "./")
           sz   == FieldRest(line)
           c    == Classify(f, sz)
       IN  /\ lists' = [lists EXCEPT ![c] = Append(@, f)]
           /\ cache' = Append(cache, f \o "|" \o sz)
    /\ pos' = pos + 1
    /\ tmpFiles' = tmpFiles \cup {"/tmp/file_sizes.cache"}
    /\ UNCHANGED <<feVars, flavor, packMode, name, refName, src, mtime, pc, emitted, sorted,
                   cat, offset, clobber, layers, blobs, manifest, index, marker,
                   result, prevOut, image>>

\* the classification loop reaches the end of the list
ClassifyDone ==
    /\ pc = "classify"
    /\ pos = Len(sorted)
    /\ pc' = "layers"
    /\ cat' = 1
    /\ pos' = 0
    /\ UNCHANGED <<feVars, flavor, packMode, name, refName, src, mtime, emitted, sorted, lists,
                   cache, offset, clobber, tmpFiles, layers, blobs, manifest, index,
                   marker, result, prevOut, image>>

\* cut -d'|' -f1 < files_with_size.list > files.list (generic)
CutPaths ==
    /\ pc = "cut"
    /\ lists' = [lists EXCEPT !.files = [k \in 1..Len(sorted) |-> Field1(sorted[k])]]
    /\ tmpFiles' = tmpFiles \cup {"/tmp/files.list"}
    /\ pc' = "layers"
    /\ pos' = 0
    /\ UNCHANGED <<feVars, flavor, packMode, name, refName, src, mtime, emitted, sorted,
                   cache, cat, offset, clobber, layers, blobs, manifest, index, marker,
                   result, prevOut, image>>

(***************************************************************************)
(* Layers.                                                                 *)
(***************************************************************************)
\* the list file the running while loop reads
LoopList == IF flavor = "modelpack" THEN lists[Categories[cat]] ELSE lists.files
LoopListFile == IF flavor = "modelpack" THEN CategoryListFile(Categories[cat]) ELSE "/tmp/files.list"

\* `read` on the loop's descriptor.  The descriptor keeps its byte offset; if cp
\* rewrote the list file in place, the bytes at that offset are now the copied
\* file's: past its end the read reports end of file, otherwise it returns
\* bytes of a file body, which name no file.
NextLine ==
    IF clobber = "none"
    THEN IF pos < Len(LoopList) THEN <<"line", LoopList[pos + 1]>> ELSE <<"eof", "">>
    ELSE IF ByteSize(clobber) <= offset THEN <<"eof", "">> ELSE <<"junk", "">>

\* what cp does to its target under /tmp: it creates a missing file; an existing
\* one is either rewritten in place (open with O_TRUNC) or unlinked and created
\* anew, depending on the cp the image ships.  The image is the same from step
\* to step and from run to run, so the first observation fixes the behaviour.
CopyHows(target) ==
    IF target \notin tmpFiles THEN {"create"}
    ELSE IF image.cp = "unknown" THEN {"truncate", "replace"}
    ELSE {image.cp}

ImageAfterCopy(how) == IF how = "create" THEN image ELSE [image EXCEPT !.cp = how]

\* tar -cf with an empty -T list either writes an empty archive or fails
\* without writing one, depending on the tar the image ships
EmptyTarHows ==
    IF image.tarEmpty = "unknown" THEN {"archive", "fails"} ELSE {image.tarEmpty}

\* a file that reached /layout/blobs/sha256/<digest>
PutBlob(content, by, complete) ==
    [d \in DOMAIN blobs \cup {Sha256(content)} |->
        IF d = Sha256(content) THEN [data |-> content, complete |-> complete, by |-> by]
        ELSE blobs[d]]

\* the record append_layer adds to layers_json (modelpack)
ModelpackLayer(content, mt, fpath, meta) ==
    [mediaType |-> mt, digest |-> Sha256(content), size |-> BlobSize(content),
     annotations |-> [filepath |-> fpath, metadata |-> meta, untested |-> "true"]]

\* the record append_layer adds to layers_json (generic)
GenericLayer(content, mt) ==
    [mediaType |-> mt, digest |-> Sha256(content), size |-> BlobSize(content)]

\* per-file metadata JSON
FileMeta(f) == [name |-> f, size |-> SizeFor(f)]

\* leave add_category: the next category, or the manifest config after the last
NextCategory ==
    /\ pc' = IF cat = Len(Categories) THEN "config" ELSE "layers"
    /\ cat' = IF cat = Len(Categories) THEN cat ELSE cat + 1
    /\ pos' = 0
    /\ offset' = 0
    /\ clobber' = "none"

\* [ ! -s "$list" ] && return 0
AddCategorySkip ==
    /\ pc = "layers"
    /\ flavor = "modelpack"
    /\ LoopList = <<>>
    /\ NextCategory
    /\ UNCHANGED <<feVars, flavor, packMode, name, refName, src, mtime, emitted, sorted, lists,
                   cache, tmpFiles, layers, blobs, manifest, index, marker, result,
                   prevOut, image>>

\* raw mode, one iteration (modelpack): cp "$f" /tmp/raw-<basename>; append_layer
RawLayer ==
    /\ pc = "layers"
    /\ flavor = "modelpack"
    /\ packMode = "raw"
    /\ LoopList # <<>>
    /\ NextLine[1] # "eof"
    /\ LET junk    == NextLine[1] = "junk"
           f       == NextLine[2]
           target  == "/tmp/raw-" \o Basename(f)
           content == <<"bytes", ContentOf(f)>>
           mt      == ModelpackMediaType(Categories[cat], "raw")
       IN  \E how \in CopyHows(target) :
              /\ pc' = IF junk THEN "failed" ELSE pc
              /\ clobber' = IF ~junk /\ how = "truncate" /\ target = LoopListFile
                            THEN ContentOf(f) ELSE clobber
              /\ tmpFiles' = IF junk THEN tmpFiles ELSE tmpFiles \ {target}
              /\ blobs' = IF junk THEN blobs ELSE PutBlob(content, "mv", TRUE)
              /\ layers' = IF junk THEN layers
                           ELSE Append(layers, ModelpackLayer(content, mt, f, FileMeta(f)))
              /\ pos' = IF junk THEN pos ELSE pos + 1
              /\ offset' = IF junk THEN offset ELSE offset + Len(f) + 1
              /\ image' = IF junk THEN image ELSE ImageAfterCopy(how)
    /\ UNCHANGED <<feVars, flavor, packMode, name, refName, src, mtime, emitted, sorted, lists,
                   cache, cat, manifest, index, marker, result, prevOut>>

\* archive modes, weights, one iteration: tar -cf /tmp/weights-<b>.tar -C dir b
WeightLayer ==
    /\ pc = "layers"
    /\ flavor = "modelpack"
    /\ packMode \in {"tar", "tar+gzip", "tar+zstd"}
    /\ Categories[cat] = "weights"
    /\ NextLine[1] = "line"
    /\ LET f       == NextLine[2]
           tmpTar  == "/tmp/weights-" \o Basename(f) \o ".tar"
           content == Compress(packMode, TarOf(<<f>>, <<Basename(f)>>))
           mt      == ModelpackMediaType("weights", packMode)
       IN  /\ tmpFiles' = IF packMode = "tar+zstd" THEN tmpFiles \cup {tmpTar} ELSE tmpFiles
           /\ blobs' = PutBlob(content, "mv", TRUE)
           /\ layers' = Append(layers, ModelpackLayer(content, mt, f, FileMeta(f)))
           /\ pos' = pos + 1
           /\ offset' = offset + Len(f) + 1
    /\ UNCHANGED <<feVars, flavor, packMode, name, refName, src, mtime, pc, emitted, sorted,
                   lists, cache, cat, clobber, manifest, index, marker, result, prevOut, image>>

\* archive modes, any other category: one tar of the whole list
AggregateLayer ==
    /\ pc = "layers"
    /\ flavor = "modelpack"
    /\ packMode \in {"tar", "tar+gzip", "tar+zstd"}
    /\ Categories[cat] # "weights"
    /\ LoopList # <<>>
    /\ LET c       == Categories[cat]
           tmpTar  == "/tmp/" \o c \o ".tar"
           content == Compress(packMode, TarOf(LoopList, LoopList))
           mt      == ModelpackMediaType(c, packMode)
           total   == SumSeq([k \in 1..Len(LoopList) |-> ParseInt(SizeFor(LoopList[k]))])
           meta    == [name |-> c, size |-> ToString(total), files |-> Len(LoopList)]
       IN  /\ tmpFiles' = IF packMode = "tar+zstd" THEN tmpFiles \cup {tmpTar} ELSE tmpFiles
           /\ blobs' = PutBlob(content, "mv", TRUE)
           /\ layers' = Append(layers, ModelpackLayer(content, mt, c, meta))
    /\ NextCategory
    /\ UNCHANGED <<feVars, flavor, packMode, name, refName, src, mtime, emitted, sorted, lists,
                   cache, manifest, index, marker, result, prevOut, image>>

\* the while loop of a per-file category (or of the generic raw mode) reads
\* end of file
LoopEnd ==
    /\ pc = "layers"
    /\ IF flavor = "modelpack"
       THEN /\ LoopList # <<>>
            /\ \/ packMode = "raw"
               \/ packMode \in {"tar", "tar+gzip", "tar+zstd"} /\ Categories[cat] = "weights"
       ELSE packMode = "raw"
    /\ NextLine[1] = "eof"
    /\ IF flavor = "modelpack"
       THEN NextCategory
       ELSE pc' = "config" /\ pos' = 0 /\ offset' = 0 /\ clobber' = "none" /\ cat' = cat
    /\ UNCHANGED <<feVars, flavor, packMode, name, refName, src, mtime, emitted, sorted, lists,
                   cache, tmpFiles, layers, blobs, manifest, index, marker, result,
                   prevOut, image>>

\* *) echo "unknown PACK_MODE $PACK_MODE" >&2; exit 1
UnknownPackMode ==
    /\ pc = "layers"
    /\ packMode \notin PackModes
    /\ flavor = "modelpack" => LoopList # <<>>
    /\ pc' = "failed"
    /\ UNCHANGED <<feVars, flavor, packMode, name, refName, src, mtime, emitted, sorted, lists,
                   cache, cat, pos, offset, clobber, tmpFiles, layers, blobs, manifest,
                   index, marker, result, prevOut, image>>

\* raw mode, one iteration (generic): cp "$f" "/tmp/$(basename "$f")"; append_layer
GenericRawLayer ==
    /\ pc = "layers"
    /\ flavor = "generic"
    /\ packMode = "raw"
    /\ NextLine[1] # "eof"
    /\ LET junk    == NextLine[1] = "junk"
           f       == NextLine[2]
           target  == "/tmp/" \o Basename(f)
           content == <<"bytes", ContentOf(f)>>
       IN  \E how \in CopyHows(target) :
              /\ pc' = IF junk THEN "failed" ELSE pc
              /\ clobber' = IF ~junk /\ how = "truncate" /\ target = LoopListFile
                            THEN ContentOf(f) ELSE clobber
              /\ tmpFiles' = IF junk THEN tmpFiles ELSE tmpFiles \ {target}
              /\ blobs' = IF junk THEN blobs ELSE PutBlob(content, "mv", TRUE)
              /\ layers' = IF junk THEN layers
                           ELSE Append(layers, GenericLayer(content, GenericMediaType("raw")))
              /\ pos' = IF junk THEN pos ELSE pos + 1
              /\ offset' = IF junk THEN offset ELSE offset + Len(f) + 1
              /\ image' = IF junk THEN image ELSE ImageAfterCopy(how)
    /\ UNCHANGED <<feVars, flavor, packMode, name, refName, src, mtime, emitted, sorted, lists,
                   cache, cat, manifest, index, marker, result, prevOut>>

\* archive modes (generic): tar -cf /tmp/allfiles.tar -T /tmp/files.list || true,
\* compress, append_layer.  With an empty list tar either writes an empty
\* archive or fails without one, depending on the tar the image ships; the
\* failure is swallowed, append_layer then returns on the missing file in tar
\* mode, and gzip / zstd fail on it in the compressed modes.
GenericArchive ==
    /\ pc = "layers"
    /\ flavor = "generic"
    /\ packMode \in {"tar", "tar+gzip", "tar+zstd"}
    /\ LET content == Compress(packMode, TarOf(lists.files, lists.files))
       IN  \E how \in (IF lists.files = <<>> THEN EmptyTarHows ELSE {"archive"}) :
              /\ pc' = IF how = "archive" \/ packMode = "tar" THEN "config" ELSE "failed"
              /\ tmpFiles' = IF how = "archive" /\ packMode = "tar+zstd"
                             THEN tmpFiles \cup {"/tmp/allfiles.tar"} ELSE tmpFiles
              /\ blobs' = IF how = "archive" THEN PutBlob(content, "mv", TRUE) ELSE blobs
              /\ layers' = IF how = "archive"
                           THEN Append(layers, GenericLayer(content, GenericMediaType(packMode)))
                           ELSE layers
              /\ image' = IF lists.files = <<>> THEN [image EXCEPT !.tarEmpty = how]
                          ELSE image
    /\ UNCHANGED <<feVars, flavor, packMode, name, refName, src, mtime, emitted, sorted, lists,
                   cache, cat, pos, offset, clobber, manifest, index, marker, result,
                   prevOut>>

(***************************************************************************)
(* Manifest config, manifest, index, layout marker.                        *)
(***************************************************************************)
ManifestMediaType == "application/vnd.oci.image.manifest.v1+json"
IndexMediaType == "application/vnd.oci.image.index.v1+json"

\* BuildModelpack / BuildGeneric: artifactType and the config media type
ArtifactType ==
    IF flavor = "modelpack" THEN "application/vnd.cncf.model.manifest.v1+json"
    ELSE "application/vnd.unknown.artifact.v1"

ConfigMediaType ==
    IF flavor = "modelpack" THEN "application/vnd.cncf.model.config.v1+json"
    ELSE "application/vnd.oci.empty.v1+json"

\* the manifest text, with $mc_dgst, $mc_size and $layers_json substituted
ManifestOf(ls) ==
    <<"manifest",
      [schemaVersion |-> 2, mediaType |-> ManifestMediaType, artifactType |-> ArtifactType,
       config |-> [mediaType |-> ConfigMediaType, digest |-> Sha256(EmptyConfig),
                   size |-> BlobSize(EmptyConfig)],
       layers |-> ls]>>

\* head -c1 = "{", grep '"schemaVersion": 2', grep the manifest media type
ManifestValid(m) ==
    /\ m[1] = "manifest"
    /\ m[2].schemaVersion = 2
    /\ m[2].mediaType = ManifestMediaType

\* the string a JSON reader finds where the here-document wrote "s": the
\* here-document copies s unescaped, so the literal ends at the first double
\* quote of s (and what follows it is no longer JSON)
RECURSIVE JSONString(_)
JSONString(s) ==
    IF s = "" \/ Head(s) = Head("\"") THEN ""
    ELSE SubSeq(s, 1, 1) \o JSONString(Tail(s))

\* IndexOf1 with the config digest in place of the manifest digest
IndexOfConfig(m) ==
    [schemaVersion |-> 2, mediaType |-> IndexMediaType,
     manifests |-> << [mediaType |-> ManifestMediaType, digest |-> Sha256(EmptyConfig),
                       size |-> BlobSize(m),
                       annotations |-> [title |-> JSONString(name),
                                        refName |-> JSONString(refName)]] >>]

\* the index text, with $m_dgst and $m_size substituted
IndexOf1(m) ==
    [schemaVersion |-> 2, mediaType |-> IndexMediaType,
     manifests |-> << [mediaType |-> ManifestMediaType, digest |-> Sha256(m),
                       size |-> BlobSize(m),
                       annotations |-> [title |-> JSONString(name),
                                        refName |-> JSONString(refName)]] >>]

\* printf '{}' > /tmp/manifest-config.json; sha256sum; stat; cp into the blob
\* directory begins: the target exists, its bytes are still being written
CopyConfig ==
    /\ pc = "config"
    /\ blobs' = PutBlob(EmptyConfig, "cp", FALSE)
    /\ tmpFiles' = tmpFiles \cup {IF flavor = "modelpack" THEN "/tmp/manifest-config.json"
                                  ELSE "/tmp/config.json"}
    /\ pc' = "config_cp"
    /\ UNCHANGED <<feVars, flavor, packMode, name, refName, src, mtime, emitted, sorted, lists,
                   cache, cat, pos, offset, clobber, layers, manifest, index, marker,
                   result, prevOut, image>>

\* the manifest is generated; only the modelpack script goes on to validate
\* it, the generic script goes straight to the digest and the cp
BuildManifest ==
    /\ pc = "manifest"
    /\ manifest' = [written |-> TRUE, data |-> ManifestOf(layers)]
    /\ tmpFiles' = tmpFiles \cup {"/tmp/manifest.json"}
    /\ pc' = IF flavor = "modelpack" THEN "validate" ELSE "manifest_blob"
    /\ UNCHANGED <<feVars, flavor, packMode, name, refName, src, mtime, emitted, sorted, lists,
                   cache, cat, pos, offset, clobber, layers, blobs, index, marker,
                   result, prevOut, image>>

\* if head -c1 ... || ! grep -q ... ; then echo ...; cat /tmp/manifest.json >&2; exit 1
ValidateManifest ==
    /\ pc = "validate"
    /\ pc' = IF ManifestValid(manifest.data) THEN "manifest_blob" ELSE "failed"
    /\ UNCHANGED <<feVars, flavor, packMode, name, refName, src, mtime, emitted, sorted, lists,
                   cache, cat, pos, offset, clobber, tmpFiles, layers, blobs, manifest,
                   index, marker, result, prevOut, image>>

\* cp /tmp/manifest.json /layout/blobs/sha256/$m_dgst begins
CopyManifest ==
    /\ pc = "manifest_blob"
    /\ blobs' = PutBlob(manifest.data, "cp", FALSE)
    /\ pc' = "manifest_cp"
    /\ UNCHANGED <<feVars, flavor, packMode, name, refName, src, mtime, emitted, sorted, lists,
                   cache, cat, pos, offset, clobber, tmpFiles, layers, manifest, index,
                   marker, result, prevOut, image>>

\* cat > /layout/index.json begins: the shell has created the file
WriteIndex ==
    /\ pc = "index"
    /\ index' = [written |-> TRUE, complete |-> FALSE, data |-> IndexOf1(manifest.data)]
    /\ pc' = "index_wr"
    /\ UNCHANGED <<feVars, flavor, packMode, name, refName, src, mtime, emitted, sorted, lists,
                   cache, cat, pos, offset, clobber, tmpFiles, layers, blobs, manifest,
                   marker, result, prevOut, image>>

\* the cp or cat in progress writes its last byte
FinishWrite ==
    /\ pc \in {"config_cp", "manifest_cp", "index_wr"}
    /\ blobs' = CASE pc = "config_cp"   -> PutBlob(EmptyConfig, "cp", TRUE)
                  [] pc = "manifest_cp" -> PutBlob(manifest.data, "cp", TRUE)
                  [] pc = "index_wr"    -> blobs
    /\ index' = IF pc = "index_wr" THEN [index EXCEPT !.complete = TRUE] ELSE index
    /\ pc' = CASE pc = "config_cp"   -> "manifest"
               [] pc = "manifest_cp" -> "index"
               [] pc = "index_wr"    -> "marker"
    /\ UNCHANGED <<feVars, flavor, packMode, name, refName, src, mtime, emitted, sorted, lists,
                   cache, cat, pos, offset, clobber, tmpFiles, layers, manifest, marker,
                   result, prevOut, image>>

\* printf '{ "imageLayoutVersion": "1.0.0" }' > /layout/oci-layout; the script ends
WriteMarker ==
    /\ pc = "marker"
    /\ marker' = TRUE
    /\ pc' = "done"
    /\ UNCHANGED <<feVars, flavor, packMode, name, refName, src, mtime, emitted, sorted, lists,
                   cache, cat, pos, offset, clobber, tmpFiles, layers, blobs, manifest,
                   index, result, prevOut, image>>

(***************************************************************************)
(* Failure, the solve's return, and packaging the same tree again.         *)
(***************************************************************************)
\* the script ends early with a non-zero status: a command fails (set -e), or
\* the build driver terminates the container.  The shell's variables, its open
\* descriptors, the pipe and the scratch files under /tmp are of no use to
\* anyone after that; what was written under /layout stays as it is.
Abort ==
    /\ Running
    /\ pc' = "failed"
    /\ emitted' = <<>>
    /\ sorted' = <<>>
    /\ lists' = EmptyLists
    /\ cache' = <<>>
    /\ cat' = 0
    /\ pos' = 0
    /\ offset' = 0
    /\ clobber' = "none"
    /\ tmpFiles' = {}
    /\ layers' = <<>>
    /\ manifest' = NoFile
    /\ UNCHANGED <<feVars, flavor, packMode, name, refName, src, mtime, blobs, index, marker,
                   result, prevOut, image>>

CustomName == IF flavor = "modelpack" THEN "packager:modelpack" ELSE "packager:generic"

\* createMinimalImageConfig with the two arguments taken in the other order
createMinimalImageConfigSwapped(os, arch) ==
    [os |-> arch, architecture |-> os, rootfs |-> [type |-> "layers", diff_ids |-> <<>>]]

\* createMinimalImageConfig(defaultPlatformOS, defaultPlatformArch)
createMinimalImageConfig(os, arch) ==
    [os |-> os, architecture |-> arch, rootfs |-> [type |-> "layers", diff_ids |-> <<>>]]

\* SolveReturn without the error path: the layout is returned as it is
SolveReturnAnyExit ==
    /\ ~Running
    /\ result.kind = "none"
    /\ result' = [kind |-> "result",
                  ref |-> [blobs |-> blobs, index |-> index, marker |-> marker],
                  config |-> createMinimalImageConfig("linux", "amd64")]
    /\ UNCHANGED <<feVars, flavor, packMode, name, refName, src, mtime, pc, emitted, sorted,
                   lists, cache, cat, pos, offset, clobber, tmpFiles, layers, blobs,
                   manifest, index, marker, prevOut, image>>

\* solveAndBuildResult: c.Solve returns once the run step has ended.  The final
\* state copies /layout/ out of the run's root, so a run that did not exit 0
\* makes the solve fail; otherwise the reference holds the layout.
SolveReturn ==
    /\ ~Running
    /\ result.kind = "none"
    /\ result' = IF pc = "done"
                 THEN [kind |-> "result",
                       ref |-> [blobs |-> blobs, index |-> index, marker |-> marker],
                       config |-> createMinimalImageConfig("linux", "amd64")]
                 ELSE [kind |-> "error",
                       msg |-> "failed to solve " \o CustomName \o " build"]
    /\ UNCHANGED <<feVars, flavor, packMode, name, refName, src, mtime, pc, emitted, sorted,
                   lists, cache, cat, pos, offset, clobber, tmpFiles, layers, blobs,
                   manifest, index, marker, prevOut, image>>

\* what a finished run leaves in the layout
Output == [set |-> TRUE, blobs |-> blobs, index |-> index]

\* the same files (same paths, same bytes) are packaged again with the same
\* configuration in a fresh container; the mount may carry other timestamps
Rerun ==
    /\ result.kind = "result"
    /\ ~prevOut.set
    /\ prevOut' = Output
    /\ mtime' \in Mtimes
    /\ pc' = "init"
    /\ emitted' = <<>>
    /\ sorted' = <<>>
    /\ lists' = EmptyLists
    /\ cache' = <<>>
    /\ cat' = 0
    /\ pos' = 0
    /\ offset' = 0
    /\ clobber' = "none"
    /\ tmpFiles' = {}
    /\ layers' = <<>>
    /\ blobs' = <<>>
    /\ manifest' = NoFile
    /\ index' = NoFile
    /\ marker' = FALSE
    /\ result' = [kind |-> "none"]
    /\ UNCHANGED <<feVars, flavor, packMode, name, refName, src, image>>

NextAsm ==
    \/ Setup
    \/ StatWorker
    \/ SortFiles
    \/ ClassifyFile
    \/ ClassifyDone
    \/ CutPaths
    \/ AddCategorySkip
    \/ RawLayer
    \/ WeightLayer
    \/ AggregateLayer
    \/ LoopEnd
    \/ UnknownPackMode
    \/ GenericRawLayer
    \/ GenericArchive
    \/ CopyConfig
    \/ BuildManifest
    \/ ValidateManifest
    \/ CopyManifest
    \/ WriteIndex
    \/ FinishWrite
    \/ WriteMarker
    \/ Abort
    \/ SolveReturn
    \/ Rerun

(***************************************************************************)
(* The frontend: option parsing (parseBuildConfig), source resolution      *)
(* (resolveSourceState, buildHuggingFaceState, ParseHuggingFaceSpec) and   *)
(* the handlers BuildModelpack / BuildGeneric.                             *)
(***************************************************************************)
localNameContext == "context"
packModeRaw == "raw"
defaultPlatformOS == "linux"
defaultPlatformArch == "amd64"
bashImage == "cgr.dev/chainguard/bash:latest"
hfCLIImage == "ghcr.io/kaito-project/aikit/hf-cli:latest"
minPathDepthForHFFile == 2

hfPrefix == "huggingface://"

\* fmt's %q of a string of printable characters without quotes or backslashes
Quote(s) == "\"" \o s \o "\""

\* position of the first character of s at or after from that is in stop,
\* Len(s) + 1 when there is none
FirstIn(s, from, stop) ==
    IF \E p \in from..Len(s) : Chr(s, p) \in stop
    THEN CHOOSE p \in from..Len(s) :
             Chr(s, p) \in stop /\ \A q \in from..(p - 1) : Chr(s, q) \notin stop
    ELSE Len(s) + 1

\* RevisionSeparators without ":"
RevisionSeparatorAt == {"@"}

\* characters that introduce the revision in hfSpecPattern: [@:]
RevisionSeparators == {"@", ":"}

\* hfSpecPattern.FindStringSubmatch on a string that has the prefix:
\*   ^huggingface://([^/]+)/([^/@:]+)(?:[@:]([^/]+))?(?:/(.*))?$
\* Each group is a greedy run that the next literal delimits, so the match, if
\* there is one, is found by one scan from the left over rest, the text after
\* the prefix: i is the "/" that ends group 1, j the end of group 2, k the end
\* of group 3 (k = j when there is no revision).
hfGroups(rest, i, j, k) ==
    IF i = 1 \/ i > Len(rest) \/ j = i + 1 \/ k = j + 1
    THEN [matched |-> FALSE]
    ELSE [matched |-> TRUE,
          m1 |-> SubSeq(rest, 1, i - 1),
          m2 |-> SubSeq(rest, i + 1, j - 1),
          m3 |-> SubSeq(rest, j + 1, k - 1),
          m4 |-> SubSeq(rest, k + 1, Len(rest))]

hfRevisionEnd(rest, i, j) ==
    hfGroups(rest, i, j,
             IF j <= Len(rest) /\ Chr(rest, j) \in RevisionSeparators
             THEN FirstIn(rest, j + 1, {"/"}) ELSE j)

hfModelEnd(rest, i) ==
    hfRevisionEnd(rest, i, FirstIn(rest, i + 1, {"/"} \cup RevisionSeparators))

hfSpecMatch(ref) ==
    hfModelEnd(TrimPrefix(ref, hfPrefix), FirstIn(TrimPrefix(ref, hfPrefix), 1, {"/"}))

\* the HuggingFaceSpec built from the submatches m, or the error
hfSpecOf(ref, m) ==
    IF ~m.matched
    THEN [ok |-> FALSE, err |-> "invalid huggingface spec: " \o ref]
    ELSE IF m.m1 = "" \/ m.m2 = ""
    THEN [ok |-> FALSE, err |-> "namespace and model required"]
    ELSE [ok |-> TRUE, Namespace |-> m.m1, Model |-> m.m2,
          Revision |-> IF m.m3 # "" THEN m.m3 ELSE "main",
          SubPath |-> m.m4]

\* inference.ParseHuggingFaceSpec
ParseHuggingFaceSpec(ref) ==
    IF ~HasPrefix(ref, hfPrefix)
    THEN [ok |-> FALSE, err |-> "not a huggingface source: " \o ref]
    ELSE hfSpecOf(ref, hfSpecMatch(ref))

\* QuoteChars without the double quote
QuoteCharSingle == {"'"}

QuoteChars == {"'", "\""}

\* ScanExclude that keeps the token across a closing quote
RECURSIVE ScanExcludeNoReset(_, _, _, _)
ScanExcludeNoReset(s, current, inQuote, patterns) ==
    IF s = "" THEN (IF current # "" /\ inQuote THEN Append(patterns, current) ELSE patterns)
    ELSE IF Head(s) \in {"'", "\""}
         THEN IF inQuote
              THEN ScanExcludeNoReset(Tail(s), current, FALSE,
                                      IF current # "" THEN Append(patterns, current)
                                      ELSE patterns)
              ELSE ScanExcludeNoReset(Tail(s), current, TRUE, patterns)
         ELSE ScanExcludeNoReset(Tail(s), IF inQuote THEN current \o Head(s) ELSE current,
                                 inQuote, patterns)

\* the loop of parseExcludePatterns over the rest of the input
RECURSIVE ScanExclude(_, _, _, _)
ScanExclude(s, current, inQuote, patterns) ==
    IF s = "" THEN (IF current # "" THEN Append(patterns, current) ELSE patterns)
    ELSE IF Head(s) \in QuoteChars
         THEN IF inQuote
              THEN ScanExclude(Tail(s), "", FALSE,
                               IF current # "" THEN Append(patterns, current) ELSE patterns)
              ELSE ScanExclude(Tail(s), current, TRUE, patterns)
         ELSE ScanExclude(Tail(s), IF inQuote THEN current \o Head(s) ELSE current,
                          inQuote, patterns)

parseExcludePatterns(exclude) ==
    IF exclude = "" THEN <<>> ELSE ScanExclude(exclude, "", FALSE, <<>>)

\* ExcludeFlags with all patterns under one flag
RECURSIVE ExcludeFlagsJoined(_)
ExcludeFlagsJoined(patterns) ==
    IF patterns = <<>> THEN ""
    ELSE (IF Len(patterns) = 1 THEN " --exclude" ELSE ExcludeFlagsJoined(SubSeq(patterns, 1, Len(patterns) - 1)))
         \o " '" \o patterns[Len(patterns)] \o "'"

\* excludeFlags += fmt.Sprintf(" --exclude '%s'", pattern), over the patterns
RECURSIVE ExcludeFlags(_)
ExcludeFlags(patterns) ==
    IF patterns = <<>> THEN ""
    ELSE " --exclude '" \o Head(patterns) \o "'" \o ExcludeFlags(Tail(patterns))

hfScriptHead ==
    "set -euo pipefail\n"
    \o "if [ -f /run/secrets/hf-token ]; then export HF_TOKEN=\"$(cat /run/secrets/hf-token)\"; fi\n"
    \o "mkdir -p /out\n"

hfScriptTail ==
    "# remove transient cache / lock artifacts\n"
    \o "rm -rf /out/.cache || true\n"
    \o "find /out -type f -name '*.lock' -delete || true\n"

generateHFDownloadScript(namespace, model, revision, exclude) ==
    hfScriptHead
    \o "hf download " \o namespace \o "/" \o model \o " --revision " \o revision
    \o " --local-dir /out"
    \o (IF exclude # "" THEN ExcludeFlags(parseExcludePatterns(exclude)) ELSE "") \o "\n"
    \o hfScriptTail

generateHFSingleFileDownloadScript(namespace, model, revision, filePath) ==
    hfScriptHead
    \o "hf download " \o namespace \o "/" \o model \o " " \o filePath
    \o " --revision " \o revision \o " --local-dir /out\n"
    \o hfScriptTail

\* llb.Image(hfCLIImage).Run(bash -c script, optional hf-token secret), then
\* llb.Scratch().File(llb.Copy(run.Root(), "/out/", "/", CopyDirContentsOnly))
HFDownloadState(script) ==
    [op |-> "copy",
     from |-> [op |-> "run", image |-> hfCLIImage, args |-> <<"bash", "-c", script>>,
               secret |-> [path |-> "/run/secrets/hf-token", id |-> "hf-token",
                           optional |-> TRUE]],
     src |-> "/out/", dest |-> "/", copyDirContentsOnly |-> TRUE]

\* hfSnapshotOf that leaves the exclude option out of the script
hfSnapshotOfNoExclude(spec, exclude) ==
    IF ~spec.ok
    THEN [ok |-> FALSE, err |-> "invalid huggingface source: " \o spec.err]
    ELSE [ok |-> TRUE,
          st |-> HFDownloadState(generateHFDownloadScript(
                     spec.Namespace, spec.Model, spec.Revision, ""))]

\* buildHuggingFaceState once the reference is parsed
hfSnapshotOf(spec, exclude) ==
    IF ~spec.ok
    THEN [ok |-> FALSE, err |-> "invalid huggingface source: " \o spec.err]
    ELSE [ok |-> TRUE,
          st |-> HFDownloadState(generateHFDownloadScript(
                     spec.Namespace, spec.Model, spec.Revision, exclude))]

buildHuggingFaceState(source, exclude) ==
    IF ~HasPrefix(source, hfPrefix)
    THEN [ok |-> FALSE, err |-> "not a huggingface source: " \o source]
    ELSE hfSnapshotOf(ParseHuggingFaceSpec(source), exclude)

\* path.Base
RECURSIVE TrimRightSlash(_)
TrimRightSlash(s) ==
    IF s # "" /\ HasSuffix(s, "/") THEN TrimRightSlash(SubSeq(s, 1, Len(s) - 1)) ELSE s

PathBase(s) ==
    IF s = "" THEN "."
    ELSE IF TrimRightSlash(s) = "" THEN "/"
    ELSE Basename(TrimRightSlash(s))

\* HasFilePathDepth with > in place of >=
HasDeeperFilePath(trimmed) == Count(trimmed, "/") > minPathDepthForHFFile

\* strings.Count(trimmed, "/") >= minPathDepthForHFFile
HasFilePathDepth(trimmed) == Count(trimmed, "/") >= minPathDepthForHFFile

\* IncludePattern without the directory case
IncludePatternVerbatim(source) == source

\* the include pattern of a path inside the local context
IncludePattern(source) == IF HasSuffix(source, "/") THEN source \o "**" ELSE source

\* llb.Local(localNameContext, [IncludePatterns], SessionID, SharedKeyHint)
LocalState(sessionID, hint, includes) ==
    [op |-> "local", name |-> localNameContext, sessionID |-> sessionID,
     sharedKeyHint |-> hint, includePatterns |-> includes]

\* llb.HTTP(source[, llb.Filename(base)]); the filename is "" when not forced
HTTPState(url, filename) == [op |-> "http", url |-> url, filename |-> filename]

\* the fallback of the huggingface case: the snapshot, or its error wrapped
hfSnapshotOrError(source, snap) ==
    IF ~snap.ok
    THEN [ok |-> FALSE,
          err |-> "failed to build huggingface state for " \o Quote(source)
                  \o ": " \o snap.err]
    ELSE snap

\* resolveHuggingFace that passes the exclude flags to the single-file download
resolveHuggingFaceExcluding(source, exclude, spec) ==
    IF HasFilePathDepth(TrimPrefix(source, hfPrefix)) /\ spec.ok /\ spec.SubPath # ""
    THEN [ok |-> TRUE,
          st |-> HFDownloadState(generateHFSingleFileDownloadScript(
                     spec.Namespace, spec.Model, spec.Revision,
                     spec.SubPath \o ExcludeFlags(parseExcludePatterns(exclude))))]
    ELSE hfSnapshotOrError(source, buildHuggingFaceState(source, exclude))

\* the huggingface case of resolveSourceState; spec is what ParseHuggingFaceSpec
\* returned for source
resolveHuggingFace(source, exclude, spec) ==
    IF HasFilePathDepth(TrimPrefix(source, hfPrefix)) /\ spec.ok /\ spec.SubPath # ""
    THEN [ok |-> TRUE,
          st |-> HFDownloadState(generateHFSingleFileDownloadScript(
                     spec.Namespace, spec.Model, spec.Revision, spec.SubPath))]
    ELSE hfSnapshotOrError(source, buildHuggingFaceState(source, exclude))

resolveSourceState(source, sessionID, preserveHTTPFilename, exclude) ==
    IF source = "" \/ source = "." \/ source = "context"
    THEN [ok |-> TRUE, st |-> LocalState(sessionID, localNameContext, <<>>)]
    ELSE IF HasPrefix(source, "https://") \/ HasPrefix(source, "http://")
    THEN [ok |-> TRUE,
          st |-> HTTPState(source, IF preserveHTTPFilename THEN PathBase(source) ELSE "")]
    ELSE IF HasPrefix(source, hfPrefix)
    THEN resolveHuggingFace(source, exclude, ParseHuggingFaceSpec(source))
    ELSE [ok |-> TRUE,
          st |-> LocalState(sessionID, localNameContext \o ":" \o IncludePattern(source),
                            <<IncludePattern(source)>>)]

\* getBuildArg: the value under "build-arg:"+k, "" when the key is absent
getBuildArg(o, k) ==
    IF \E kv \in o : kv[1] = "build-arg:" \o k
    THEN (CHOOSE kv \in o : kv[1] = "build-arg:" \o k)[2]
    ELSE ""

\* determineRefName with the default of determineName
determineRefNameAsName(o) ==
    IF getBuildArg(o, "name") # "" THEN getBuildArg(o, "name") ELSE "aikitmodel"

determineRefName(o) == IF getBuildArg(o, "name") # "" THEN getBuildArg(o, "name") ELSE "latest"

determineName(o) == IF getBuildArg(o, "name") # "" THEN getBuildArg(o, "name") ELSE "aikitmodel"

\* TargetName that names the generic target for both handlers
TargetNameGeneric(isModelpack) == "generic"

\* the target named in parseBuildConfig's error
TargetName(isModelpack) == IF isModelpack THEN "modelpack" ELSE "generic"

NoConfig == [set |-> FALSE]

parseBuildConfig(o, sessionID, isModelpack) ==
    IF getBuildArg(o, "source") = ""
    THEN [ok |-> FALSE, cfg |-> NoConfig,
          err |-> "source is required for " \o TargetName(isModelpack) \o " target"]
    ELSE [ok |-> TRUE,
          cfg |-> [set |-> TRUE,
                   source |-> getBuildArg(o, "source"),
                   exclude |-> getBuildArg(o, "exclude"),
                   packMode |-> IF getBuildArg(o, "layer_packaging") = "" THEN packModeRaw
                                ELSE getBuildArg(o, "layer_packaging"),
                   name |-> determineName(o),
                   refName |-> determineRefName(o),
                   sessionID |-> sessionID,
                   genericOutputMode |-> IF isModelpack THEN ""
                                         ELSE getBuildArg(o, "generic_output_mode"),
                   debug |-> getBuildArg(o, "debug") = "1"]]

(***************************************************************************)
(* Calls into the package.  A call is one of the two gateway handlers, or  *)
(* a direct call of resolveSourceState or buildHuggingFaceState with       *)
(* arguments of the caller's choosing.                                     *)
(***************************************************************************)
SourceArgs ==
    {"", ".", "context",
     "http://example.com/m.bin", "https://example.com/path/model.safetensors",
     "https://example.com/dir/",
     "huggingface://org/model", "huggingface://org/model@rev123",
     "huggingface://org/model:rev123", "huggingface://org/model@rev123/path/file.bin",
     "huggingface://org/model:rev123/path/file.bin",
     "huggingface://org/model/file.bin", "huggingface://org/model/",
     "huggingface://org", "huggingface://", "huggingface://org/model@",
     "huggingface://invalid spec format", "huggingface:///model",
     "Huggingface://org/model", "models/", "models/weights", "*.safetensors"}

ExcludeArgs == {"", "'original/*' 'metal/*'"}

\* exclude strings of the kinds the option can carry: quoted with either
\* character, unclosed, empty, blank
ExcludeCases ==
    {"", "'original/*'", "'original/*' 'metal/*'", "\"*.safetensors\" \"metal/**\"",
     "'original/**' \"metal/*\" '*.bin'", "   ", "'pattern", "''",
     "'pattern with spaces'", "''  ''  ''", "'a' 'b' 'c'", "'it\"s'", "x 'a' y"}

\* the strings of at most n characters of chars
RECURSIVE StringsUpTo(_, _)
StringsUpTo(chars, n) ==
    IF n = 0 THEN {""}
    ELSE {""} \cup {c \o t : c \in chars, t \in StringsUpTo(chars, n - 1)}

\* arguments of a direct call of parseExcludePatterns or generateHFDownloadScript:
\* the exclude string, and the patterns it was quoted from (none when the
\* string is not built from patterns).  Quoted patterns arrive in the form
\* "'pattern1' 'pattern2'".
ExcludeCalls ==
    {[exclude |-> e, quoted |-> <<>>] :
        e \in ExcludeCases \cup StringsUpTo({"a", "*", " ", "'", "\""}, MaxExcludeLen)}
    \cup {[exclude |-> "'" \o p1 \o "' '" \o p2 \o "'", quoted |-> <<p1, p2>>] :
              p1 \in StringsUpTo({"a", "/", "*", "\""}, MaxPatternLen),
              p2 \in StringsUpTo({"a", "/", "*", "\""}, MaxPatternLen)}

SessionArgs == {"s1", "s2"}

\* the ways one build argument can be given: not at all, or with one of vals
OptChoices(k, vals) == {{}} \cup {{<<"build-arg:" \o k, v>>} : v \in vals}

OptMaps ==
    {a \cup b \cup c \cup d \cup e \cup f :
        a \in OptChoices("source", SourceArgs),
        b \in OptChoices("exclude", ExcludeArgs \ {""}),
        c \in OptChoices("layer_packaging", {"", "tar+gzip", "zip"}),
        d \in OptChoices("name", {"", "m1"}),
        e \in OptChoices("debug", {"1", "true"}),
        f \in OptChoices("generic_output_mode", {"files", "archive"})}

(***************************************************************************)
(* Backend selection of the inference frontend (getBackendTag,             *)
(* getBackendName).                                                        *)
(***************************************************************************)
\* the constants of package utils that backend.go names
utils ==
    [BackendExllamaV2 |-> "exllama2", BackendDiffusers |-> "diffusers",
     BackendLlamaCpp |-> "llama-cpp", RuntimeNVIDIA |-> "cuda",
     RuntimeAppleSilicon |-> "applesilicon", PlatformAMD64 |-> "amd64",
     PlatformARM64 |-> "arm64"]

\* the OCI tag of the backend image; baseTag is localAIVersion
getBackendTag(backend, runtime, platform) ==
    LET baseTag == "sha-1a0d06f"
        backendName == CASE backend = utils.BackendExllamaV2 -> "exllama2"
                         [] backend = utils.BackendDiffusers -> "diffusers"
                         [] backend = utils.BackendLlamaCpp -> "llama-cpp"
                         [] OTHER -> "llama-cpp"
    IN  IF runtime = utils.RuntimeAppleSilicon
        THEN baseTag \o "-cpu-llama-cpp"
        ELSE IF runtime = utils.RuntimeNVIDIA /\ platform.Architecture = utils.PlatformAMD64
        THEN CASE backendName = "exllama2" -> baseTag \o "-gpu-nvidia-cuda-12-exllama2"
               [] backendName = "diffusers" -> baseTag \o "-gpu-nvidia-cuda-12-diffusers"
               [] backendName = "llama-cpp" -> baseTag \o "-gpu-nvidia-cuda-12-llama-cpp"
               [] OTHER -> baseTag \o "-gpu-nvidia-cuda-12-llama-cpp"
        ELSE CASE backendName = "exllama2" -> baseTag \o "-cpu-exllama2"
               [] backendName = "llama-cpp" -> baseTag \o "-cpu-llama-cpp"
               [] OTHER -> baseTag \o "-cpu-llama-cpp"

\* getBackendName without the architecture test of the CUDA case
getBackendNameAnyArch(backend, runtime, platform) ==
    IF runtime = utils.RuntimeAppleSilicon
    THEN "cpu-llama-cpp"
    ELSE IF runtime = utils.RuntimeNVIDIA
    THEN CASE backend = utils.BackendExllamaV2 -> "cuda12-exllama2"
           [] backend = utils.BackendDiffusers -> "cuda12-diffusers"
           [] OTHER -> "cuda12-llama-cpp"
    ELSE CASE backend = utils.BackendExllamaV2 -> "cpu-exllama2"
           [] OTHER -> "cpu-llama-cpp"

\* the backend directory name written to metadata.json
getBackendName(backend, runtime, platform) ==
    IF runtime = utils.RuntimeAppleSilicon
    THEN "cpu-llama-cpp"
    ELSE IF runtime = utils.RuntimeNVIDIA /\ platform.Architecture = utils.PlatformAMD64
    THEN CASE backend = utils.BackendExllamaV2 -> "cuda12-exllama2"
           [] backend = utils.BackendDiffusers -> "cuda12-diffusers"
           [] backend = utils.BackendLlamaCpp -> "cuda12-llama-cpp"
           [] OTHER -> "cuda12-llama-cpp"
    ELSE CASE backend = utils.BackendExllamaV2 -> "cpu-exllama2"
           [] backend = utils.BackendLlamaCpp -> "cpu-llama-cpp"
           [] OTHER -> "cpu-llama-cpp"

NotCalled == [called |-> FALSE]

NoState == [ok |-> FALSE, err |-> ""]

NoGraph == [op |-> "none"]

\* no call into the frontend is in progress
FrontendIdle ==
    /\ entry = "none"
    /\ opts = {}
    /\ session = ""
    /\ resolveArgs = NotCalled
    /\ fpc = "returned"
    /\ cfg = NoConfig
    /\ srcState = NoState
    /\ graph = NoGraph
    /\ solves = 0
    /\ ret = [kind |-> "none"]

\* no assembler is running
AssemblerIdle ==
    /\ flavor = "none"
    /\ packMode = ""
    /\ name = ""
    /\ refName = ""
    /\ src = {}
    /\ mtime = 0
    /\ prevOut = [set |-> FALSE]
    /\ image = [cp |-> "unknown", tarEmpty |-> "unknown"]
    /\ FreshContainer

InitFrontend ==
    /\ fpc = "entry"
    /\ cfg = NoConfig
    /\ srcState = NoState
    /\ graph = NoGraph
    /\ solves = 0
    /\ ret = [kind |-> "none"]
    /\ \/ /\ entry \in {"BuildModelpack", "BuildGeneric"}
          /\ opts \in OptMaps
          /\ session = "s1"
          /\ resolveArgs = NotCalled
       \/ /\ entry = "resolveSourceState"
          /\ opts = {}
          /\ session = ""
          /\ \E s \in SourceArgs, sid \in SessionArgs, p \in BOOLEAN, x \in ExcludeCases :
                resolveArgs = [called |-> FALSE, source |-> s, sessionID |-> sid,
                               preserveHTTPFilename |-> p, exclude |-> x]
       \/ /\ entry = "buildHuggingFaceState"
          /\ opts = {}
          /\ session = ""
          /\ \E s \in SourceArgs, x \in ExcludeCases :
                resolveArgs = [called |-> FALSE, source |-> s, sessionID |-> "",
                               preserveHTTPFilename |-> FALSE, exclude |-> x]
       \/ /\ entry = "parseExcludePatterns"
          /\ opts = {}
          /\ session = ""
          /\ \E c \in ExcludeCalls :
                resolveArgs = [called |-> FALSE, exclude |-> c.exclude, quoted |-> c.quoted]
       \/ /\ entry = "generateHFDownloadScript"
          /\ opts = {}
          /\ session = ""
          /\ \E c \in ExcludeCalls, r \in {"main", "rev123"} :
                resolveArgs = [called |-> FALSE, namespace |-> "org", model |-> "model",
                               revision |-> r, exclude |-> c.exclude, quoted |-> c.quoted]
       \/ /\ entry = "determineName"
          /\ opts \in OptMaps
          /\ session = ""
          /\ resolveArgs = NotCalled
       \/ /\ entry = "ParseHuggingFaceSpec"
          /\ opts = {}
          /\ session = ""
          /\ \E s \in SourceArgs :
                resolveArgs = [called |-> FALSE, source |-> s, sessionID |-> "",
                               preserveHTTPFilename |-> FALSE, exclude |-> ""]
       \/ /\ entry = "getBackendTag"
          /\ opts = {}
          /\ session = ""
          /\ \E b \in {"", "unknown", "llama-cpp", "exllama2", "diffusers", "oci"},
                r \in {"", "cpu", "cuda", "applesilicon"},
                a \in {"amd64", "arm64", ""} :
                resolveArgs = [called |-> FALSE, backend |-> b, runtime |-> r,
                               platform |-> [Architecture |-> a]]

\* the arguments a handler passes to resolveSourceState
HandlerResolveArgs(c, preserve) ==
    [called |-> TRUE, source |-> c.source, sessionID |-> c.sessionID,
     preserveHTTPFilename |-> preserve, exclude |-> c.exclude]

\* llb.Image(bashImage).Run(bash -c script, /src mounted read-only), then
\* llb.Scratch().File(llb.Copy(run.Root(), "/layout/", "/"))
AssemblerGraph(script, st, customName) ==
    [op |-> "copy", customName |-> customName,
     from |-> [op |-> "run", image |-> bashImage, script |-> script,
               mount |-> [target |-> "/src", state |-> st, readonly |-> TRUE]],
     src |-> "/layout/", dest |-> "/"]

\* FilesGraph copying the /layout/ directory of the state
FilesGraphOfLayout(st, customName) ==
    [op |-> "copy", customName |-> customName, from |-> st, src |-> "/layout/", dest |-> "/"]

\* llb.Scratch().File(llb.Copy(srcState, "/", "/"))
FilesGraph(st, customName) ==
    [op |-> "copy", customName |-> customName, from |-> st, src |-> "/", dest |-> "/"]

\* the script arguments BuildModelpack passes to generateModelpackScript
ModelpackScriptArgs(c) ==
    [generator |-> "generateModelpackScript", packMode |-> c.packMode,
     artifactType |-> "application/vnd.cncf.model.manifest.v1+json",
     mtManifest |-> "application/vnd.cncf.model.config.v1+json",
     name |-> c.name, refName |-> c.refName]

\* the script arguments BuildGeneric passes to generateGenericScript
GenericScriptArgs(c) ==
    [generator |-> "generateGenericScript", packMode |-> c.packMode,
     artifactType |-> "application/vnd.unknown.artifact.v1",
     name |-> c.name, refName |-> c.refName, debug |-> c.debug]

\* the handler's last step up to the solve request: state.Marshal either fails,
\* and the handler returns, or c.Solve is called with the definition
SubmitSolve(g) ==
    /\ graph' = g
    /\ \E marshalled \in BOOLEAN :
          IF marshalled
          THEN /\ fpc' = "solving"
               /\ solves' = solves + 1
               /\ ret' = ret
          ELSE /\ fpc' = "returned"
               /\ solves' = solves
               /\ ret' = [kind |-> "error",
                          msg |-> "failed to marshal " \o g.customName
                                  \o " LLB definition: marshal error"]

\* ReturnError reached only after a solve request was made
ReturnErrorAfterSolve(msg) ==
    /\ fpc' = "returned"
    /\ ret' = [kind |-> "error", msg |-> msg]
    /\ graph' = graph
    /\ solves' = solves + 1

\* the handler returns err before anything is built
ReturnError(msg) ==
    /\ fpc' = "returned"
    /\ ret' = [kind |-> "error", msg |-> msg]
    /\ graph' = graph
    /\ solves' = solves

BuildModelpack ==
    /\ entry = "BuildModelpack"
    /\ fpc = "entry"
    /\ \E parsed \in {parseBuildConfig(opts, session, TRUE)} :
          LET c == parsed.cfg
          IN  /\ cfg' = c
              /\ IF ~parsed.ok
                 THEN /\ ReturnError(parsed.err)
                      /\ UNCHANGED <<resolveArgs, srcState>>
                 ELSE \E resolved \in {resolveSourceState(c.source, c.sessionID, TRUE,
                                                           c.exclude)} :
                   /\ resolveArgs' = HandlerResolveArgs(c, TRUE)
                   /\ srcState' = resolved
                   /\ IF ~resolved.ok
                      THEN ReturnError("failed to resolve modelpack source "
                                       \o Quote(c.source) \o ": " \o resolved.err)
                      ELSE SubmitSolve(AssemblerGraph(ModelpackScriptArgs(c), resolved.st,
                                                      "packager:modelpack"))
    /\ UNCHANGED <<entry, opts, session, asmVars>>

BuildGeneric ==
    /\ entry = "BuildGeneric"
    /\ fpc = "entry"
    /\ \E parsed \in {parseBuildConfig(opts, session, FALSE)} :
          LET c == parsed.cfg
          IN  /\ cfg' = c
              /\ IF ~parsed.ok
                 THEN /\ ReturnError(parsed.err)
                      /\ UNCHANGED <<resolveArgs, srcState>>
                 ELSE \E resolved \in {resolveSourceState(c.source, c.sessionID, FALSE,
                                                           c.exclude)} :
                   /\ resolveArgs' = HandlerResolveArgs(c, FALSE)
                   /\ srcState' = resolved
                   /\ IF ~resolved.ok
                      THEN ReturnError("failed to resolve generic source "
                                       \o Quote(c.source) \o ": " \o resolved.err)
                      ELSE IF c.genericOutputMode = "files"
                      THEN SubmitSolve(FilesGraph(resolved.st, "packager:generic-files"))
                      ELSE SubmitSolve(AssemblerGraph(GenericScriptArgs(c), resolved.st,
                                                      "packager:generic"))
    /\ UNCHANGED <<entry, opts, session, asmVars>>

\* solveAndBuildResult after c.Solve returned: the solve failed, or it gave no
\* single reference, or the result is built around the reference
SolveResponse ==
    /\ fpc = "solving"
    /\ fpc' = "returned"
    /\ \E outcome \in {"ok", "solve failed", "no single ref"} :
          ret' = CASE outcome = "ok" ->
                        [kind |-> "result", ref |-> graph,
                         config |-> createMinimalImageConfig(defaultPlatformOS,
                                                             defaultPlatformArch)]
                   [] outcome = "solve failed" ->
                        [kind |-> "error",
                         msg |-> "failed to solve " \o graph.customName
                                 \o " build: solve error"]
                   [] outcome = "no single ref" ->
                        [kind |-> "error",
                         msg |-> "failed to get " \o graph.customName
                                 \o " result reference: no single ref"]
    /\ UNCHANGED <<entry, opts, session, resolveArgs, cfg, srcState, graph, solves, asmVars>>

\* a direct call of resolveSourceState(source, sessionID, preserveHTTPFilename, exclude)
CallResolveSourceState ==
    /\ entry = "resolveSourceState"
    /\ fpc = "entry"
    /\ fpc' = "returned"
    /\ resolveArgs' = [resolveArgs EXCEPT !.called = TRUE]
    /\ srcState' = resolveSourceState(resolveArgs.source, resolveArgs.sessionID,
                                      resolveArgs.preserveHTTPFilename, resolveArgs.exclude)
    /\ UNCHANGED <<entry, opts, session, cfg, graph, solves, ret, asmVars>>

\* a direct call of buildHuggingFaceState(source, exclude)
CallBuildHuggingFaceState ==
    /\ entry = "buildHuggingFaceState"
    /\ fpc = "entry"
    /\ fpc' = "returned"
    /\ resolveArgs' = [resolveArgs EXCEPT !.called = TRUE]
    /\ srcState' = buildHuggingFaceState(resolveArgs.source, resolveArgs.exclude)
    /\ UNCHANGED <<entry, opts, session, cfg, graph, solves, ret, asmVars>>

\* a direct call of inference.ParseHuggingFaceSpec(source)
CallParseHuggingFaceSpec ==
    /\ entry = "ParseHuggingFaceSpec"
    /\ fpc = "entry"
    /\ fpc' = "returned"
    /\ resolveArgs' = [resolveArgs EXCEPT !.called = TRUE]
    /\ srcState' = ParseHuggingFaceSpec(resolveArgs.source)
    /\ UNCHANGED <<entry, opts, session, cfg, graph, solves, ret, asmVars>>

\* a direct call of parseExcludePatterns(exclude)
CallParseExcludePatterns ==
    /\ entry = "parseExcludePatterns"
    /\ fpc = "entry"
    /\ fpc' = "returned"
    /\ resolveArgs' = [resolveArgs EXCEPT !.called = TRUE]
    /\ srcState' = [ok |-> TRUE, patterns |-> parseExcludePatterns(resolveArgs.exclude)]
    /\ UNCHANGED <<entry, opts, session, cfg, graph, solves, ret, asmVars>>

\* a direct call of generateHFDownloadScript(namespace, model, revision, exclude)
CallGenerateHFDownloadScript ==
    /\ entry = "generateHFDownloadScript"
    /\ fpc = "entry"
    /\ fpc' = "returned"
    /\ resolveArgs' = [resolveArgs EXCEPT !.called = TRUE]
    /\ srcState' = [ok |-> TRUE,
                    script |-> generateHFDownloadScript(resolveArgs.namespace,
                                   resolveArgs.model, resolveArgs.revision,
                                   resolveArgs.exclude)]
    /\ UNCHANGED <<entry, opts, session, cfg, graph, solves, ret, asmVars>>

\* direct calls of determineName(opts) and determineRefName(opts)
CallDetermineName ==
    /\ entry = "determineName"
    /\ fpc = "entry"
    /\ fpc' = "returned"
    /\ srcState' = [ok |-> TRUE, name |-> determineName(opts),
                    refName |-> determineRefName(opts)]
    /\ UNCHANGED <<entry, opts, session, resolveArgs, cfg, graph, solves, ret, asmVars>>

\* direct calls of getBackendTag and getBackendName with the same arguments
CallGetBackend ==
    /\ entry = "getBackendTag"
    /\ fpc = "entry"
    /\ fpc' = "returned"
    /\ resolveArgs' = [resolveArgs EXCEPT !.called = TRUE]
    /\ srcState' = [ok |-> TRUE,
                    tag |-> getBackendTag(resolveArgs.backend, resolveArgs.runtime,
                                          resolveArgs.platform),
                    name |-> getBackendName(resolveArgs.backend, resolveArgs.runtime,
                                            resolveArgs.platform)]
    /\ UNCHANGED <<entry, opts, session, cfg, graph, solves, ret, asmVars>>

NextFrontend ==
    \/ BuildModelpack
    \/ BuildGeneric
    \/ SolveResponse
    \/ CallResolveSourceState
    \/ CallBuildHuggingFaceState
    \/ CallParseHuggingFaceSpec
    \/ CallParseExcludePatterns
    \/ CallGenerateHFDownloadScript
    \/ CallDetermineName
    \/ CallGetBackend

vars == <<asmVars, feVars>>

Init == InitAsm /\ FrontendIdle

Next == NextAsm

Spec == Init /\ [][Next]_vars

InitFE == InitFrontend /\ AssemblerIdle

SpecFrontend == InitFE /\ [][NextFrontend]_vars

(***************************************************************************)
(* Properties of the assembler.                                            *)
(***************************************************************************)
Finished == pc = "done"

ArchiveModes == {"tar", "tar+gzip", "tar+zstd"}

\* the layers of the manifest the script wrote
ManifestLayers == manifest.data[2].layers

\* the members <<name, content id>> of the archive held by a blob
ArchiveMembers(content) ==
    LET t == IF content[1] \in {"gzip", "zstd"} THEN content[2] ELSE content
    IN  [k \in 1..Len(t[2]) |-> <<t[2][k][1], t[2][k][2]>>]

\* C1: in raw pack mode a finished run of either script has appended exactly
\* one layer record per enumerated file, whatever the files are called and
\* whatever they hold: the manifest's layer count is the file count.
C1_RawOneLayerPerFile ==
    (Finished /\ packMode = "raw") =>
        /\ Len(ManifestLayers) = Cardinality(Enumerated)
        /\ \A f \in Enumerated :
              \E k \in 1..Len(ManifestLayers) :
                  ManifestLayers[k].digest = Sha256(<<"bytes", ContentOf(f)>>)

\* the indexes of the manifest layers annotated with file path fp
LayersFor(fp) ==
    {k \in 1..Len(ManifestLayers) : ManifestLayers[k].annotations.filepath = fp}

AggregatedCategories == {"config", "docs", "code", "dataset"}

C3_DigestsAreBlobs ==
    Finished =>
        /\ \A k \in 1..Len(ManifestLayers) :
              /\ ManifestLayers[k].digest \in DOMAIN blobs
              /\ blobs[ManifestLayers[k].digest].complete
              /\ ManifestLayers[k].size = BlobSize(blobs[ManifestLayers[k].digest].data)
        /\ manifest.data[2].config.digest \in DOMAIN blobs
        /\ blobs[manifest.data[2].config.digest].complete
        /\ Sha256(manifest.data) \in DOMAIN blobs
        /\ blobs[Sha256(manifest.data)].complete
        /\ blobs[Sha256(manifest.data)].data = manifest.data
        /\ index.written /\ index.complete
        /\ Len(index.data.manifests) = 1
        /\ index.data.manifests[1].digest = Sha256(manifest.data)
        /\ index.data.manifests[1].size = BlobSize(blobs[Sha256(manifest.data)].data)

\* a finished run whose manifest lists two layers
C3_Witness == Finished /\ Len(ManifestLayers) = 2 /\ Cardinality(DOMAIN blobs) = 4

\* C4: packaging the same files with the same configuration a second time
\* leaves the same blobs and the same index.json as the first time.
C4_Deterministic == (Finished /\ prevOut.set) => Output = prevOut

\* the classification rules of the format, on a lower-cased basename
IsWeightName(b) ==
    \E e \in {".safetensors", ".bin", ".gguf", ".pt", ".ckpt"} : HasSuffix(b, e)

IsDocName(b) ==
    HasPrefix(b, "readme") \/ HasPrefix(b, "license") \/ HasSuffix(b, ".md")

IsConfigName(b) == HasSuffix(b, ".json") \/ HasSuffix(b, ".txt")

IsCodeName(b) ==
    \E e \in {".py", ".sh", ".ipynb", ".go", ".js", ".ts"} : HasSuffix(b, e)

IsDatasetName(b) ==
    \E e \in {".csv", ".tsv", ".jsonl", ".parquet", ".arrow", ".h5", ".npz"} :
        HasSuffix(b, e)

\* the category of the first rule that lower-cased basename b matches
FirstRule(b, size) ==
    IF IsWeightName(b) THEN "weights"
    ELSE IF IsDocName(b) THEN "docs"
    ELSE IF IsConfigName(b) THEN "config"
    ELSE IF IsCodeName(b) THEN "code"
    ELSE IF IsDatasetName(b) THEN "dataset"
    ELSE IF size > 10485760 THEN "weights" ELSE "config"

CategoryByRule(f) == FirstRule(ToLower(Basename(f)), ByteSize(ContentOf(f)))

Classified ==
    /\ flavor = "modelpack"
    /\ pc \in {"layers", "config", "config_cp", "manifest", "validate", "manifest_blob",
               "manifest_cp", "index", "index_wr", "marker", "done"}

\* C5: once the classification loop has ended, every enumerated file is in
\* exactly one of the five lists, once, and it is the list of the first rule
\* its lower-cased basename matches (weights extensions, docs, config, code,
\* dataset); a file matching no rule is in weights if it is larger than
\* 10485760 bytes, in config otherwise.  The lists hold nothing else.
C5_ClassificationByFirstRule ==
    Classified =>
        /\ \A f \in Enumerated :
              \E c \in {CategoryByRule(f)} :
                  /\ Cardinality({k \in 1..Len(lists[c]) : lists[c][k] = f}) = 1
                  /\ \A d \in Range(Categories) \ {c} : f \notin Range(lists[d])
        /\ \A c \in Range(Categories) : Range(lists[c]) \subseteq Enumerated

\* classification has ended on a tree with an unmatched file of exactly the
\* threshold size and a docs-named file that also matches a config pattern
C5_Witness ==
    /\ Classified
    /\ src = {"v.dat", "README.txt"}
    /\ lists.config = <<"v.dat">>
    /\ lists.docs = <<"README.txt">>

Resolved ==
    /\ resolveArgs.called
    /\ entry \in {"resolveSourceState", "BuildModelpack", "BuildGeneric"}

StartsWith(s, p) == Len(s) >= Len(p) /\ SubSeq(s, 1, Len(p)) = p

EndsWith(s, p) == Len(s) >= Len(p) /\ SubSeq(s, Len(s) - Len(p) + 1, Len(s)) = p

\* the text of a reference after huggingface://
AfterPrefix(s) == SubSeq(s, Len("huggingface://") + 1, Len(s))

NoChar(s, from, to, chars) == \A n \in from..to : SubSeq(s, n, n) \notin chars

\* r is <namespace>/<model>[(@|:)<revision>][/<subpath>] with the namespace
\* ending before position i, the model before j and the revision before k
\* (j = k when there is no revision; k past the end when there is no subpath)
IsSplit(r, i, j, k) ==
    /\ 1 < i /\ i + 1 < j /\ j <= k /\ k <= Len(r) + 1
    /\ SubSeq(r, i, i) = "/"
    /\ NoChar(r, 1, i - 1, {"/"})
    /\ NoChar(r, i + 1, j - 1, {"/", "@", ":"})
    /\ j < k => (SubSeq(r, j, j) \in {"@", ":"} /\ j + 1 < k /\ NoChar(r, j + 1, k - 1, {"/"}))
    /\ k <= Len(r) => SubSeq(r, k, k) = "/"

\* the positions of r that hold one of chars, and the position past its end
Stops(r, chars) == {n \in 1..Len(r) : SubSeq(r, n, n) \in chars} \cup {Len(r) + 1}

Splits(r) ==
    {t \in Stops(r, {"/"}) \X Stops(r, {"/", "@", ":"}) \X Stops(r, {"/"}) :
        IsSplit(r, t[1], t[2], t[3])}

WellFormed(s) ==
    /\ StartsWith(s, "huggingface://")
    /\ Splits(AfterPrefix(s)) # {}

\* the parts of reference text r under the split t
PartsOf(r, t) ==
    [Namespace |-> SubSeq(r, 1, t[1] - 1),
     Model     |-> SubSeq(r, t[1] + 1, t[2] - 1),
     Revision  |-> IF t[2] < t[3] THEN SubSeq(r, t[2] + 1, t[3] - 1) ELSE "main",
     SubPath   |-> SubSeq(r, t[3] + 1, Len(r))]

Parts(s) == PartsOf(AfterPrefix(s), CHOOSE t \in Splits(AfterPrefix(s)) : TRUE)

\* srcState is a download run in the hf CLI image whose script has this line
IsHFDownload(line) ==
    /\ srcState.ok
    /\ srcState.st.op = "copy"
    /\ srcState.st.from.op = "run"
    /\ srcState.st.from.image = "ghcr.io/kaito-project/aikit/hf-cli:latest"
    /\ Contains(srcState.st.from.args[3], "\n" \o line \o "\n")

SnapshotLine(p, flags) ==
    "hf download " \o p.Namespace \o "/" \o p.Model \o " --revision " \o p.Revision
    \o " --local-dir /out" \o flags

SingleFileLine(p) ==
    "hf download " \o p.Namespace \o "/" \o p.Model \o " " \o p.SubPath
    \o " --revision " \o p.Revision \o " --local-dir /out"

\* the positions of the quote characters of exclude string e
QuotePositions(e) == {n \in 1..Len(e) : SubSeq(e, n, n) \in {"'", "\""}}

\* the quote positions of e that open a quoted run: those with an even number
\* of quote characters before them
OpeningQuotes(e) ==
    {q \in QuotePositions(e) : Cardinality({r \in QuotePositions(e) : r < q}) % 2 = 0}

\* the text from after the opening quote at q up to the next quote character,
\* or to the end of e when there is none
QuotedRun(e, q) ==
    SubSeq(e, q + 1,
           IF \E r \in QuotePositions(e) : r > q
           THEN (CHOOSE r \in QuotePositions(e) :
                    r > q /\ \A t \in QuotePositions(e) : t > q => r <= t) - 1
           ELSE Len(e))

\* the k-th opening quote of e
NthOpening(e, k) ==
    CHOOSE q \in OpeningQuotes(e) : Cardinality({r \in OpeningQuotes(e) : r < q}) = k - 1

\* the non-empty quoted runs of e, in input order
TokensOf(e) ==
    SelectSeq([k \in 1..Cardinality(OpeningQuotes(e)) |-> QuotedRun(e, NthOpening(e, k))],
              LAMBDA t : t # "")

\* one --exclude flag per token, from the k-th token on
RECURSIVE FlagsFrom(_, _)
FlagsFrom(tokens, k) ==
    IF k > Len(tokens) THEN ""
    ELSE " --exclude '" \o tokens[k] \o "'" \o FlagsFrom(tokens, k + 1)

FlagsOf(exclude) == FlagsFrom(TokensOf(exclude), 1)

IsLocalMount(sid, hint, includes) ==
    srcState = [ok |-> TRUE,
                st |-> [op |-> "local", name |-> "context", sessionID |-> sid,
                        sharedKeyHint |-> hint, includePatterns |-> includes]]

IsHTTPFetch(url, filename) ==
    srcState = [ok |-> TRUE, st |-> [op |-> "http", url |-> url, filename |-> filename]]

IsHTTPSource(s) ==
    StartsWith(s, "http://") \/ StartsWith(s, "https://")

IsHFSource(s) == StartsWith(s, "huggingface://")

\* the variant the format assigns to a source that is not a huggingface:// one
NonHFVariant(a) ==
    CASE a.source \in {"", ".", "context"} -> IsLocalMount(a.sessionID, "context", <<>>)
      [] a.source \notin {"", ".", "context"} /\ IsHTTPSource(a.source) ->
            IsHTTPFetch(a.source, IF a.preserveHTTPFilename THEN PathBase(a.source) ELSE "")
      [] OTHER ->
            IF EndsWith(a.source, "/")
            THEN IsLocalMount(a.sessionID, "context:" \o a.source \o "**",
                              <<a.source \o "**">>)
            ELSE IsLocalMount(a.sessionID, "context:" \o a.source, <<a.source>>)

\* C7 as stated: every string starting with huggingface:// is mapped to a
\* Hugging Face download, every other string to the variant of its form.
C7_EverySourceHasAVariant ==
    Resolved =>
        IF IsHFSource(resolveArgs.source)
        THEN /\ srcState.ok
             /\ srcState.st.op = "copy"
             /\ srcState.st.from.image = "ghcr.io/kaito-project/aikit/hf-cli:latest"
        ELSE NonHFVariant(resolveArgs)

\* C7: resolveSourceState maps "", "." and "context" to the local context
\* mount with hint "context"; an http:// or https:// string to an HTTP fetch
\* whose filename is the URL basename iff preserveHTTPFilename; any string
\* that is none of these and has no huggingface:// prefix to a local mount
\* with include pattern p, or p ** when p ends with "/", and hint "context:"
\* joined with the pattern; and a huggingface:// string to a Hugging Face
\* download when the reference is well formed, to an error and no variant
\* when it is not.
C7_VariantBySourceForm ==
    Resolved =>
        IF IsHFSource(resolveArgs.source)
        THEN IF WellFormed(resolveArgs.source)
             THEN /\ srcState.ok
                  /\ srcState.st.op = "copy"
                  /\ srcState.st.from.op = "run"
                  /\ srcState.st.from.image = "ghcr.io/kaito-project/aikit/hf-cli:latest"
             ELSE /\ ~srcState.ok
                  /\ DOMAIN srcState = {"ok", "err"}
        ELSE NonHFVariant(resolveArgs)

\* a directory path of the context resolved to a local mount of its subtree
C7_Witness ==
    /\ Resolved
    /\ resolveArgs.source = "models/"
    /\ IsLocalMount(resolveArgs.sessionID, "context:models/**", <<"models/**">>)

Parsed == resolveArgs.called /\ entry = "ParseHuggingFaceSpec"

BuiltHF == resolveArgs.called /\ entry = "buildHuggingFaceState"

\* C9 as stated: every reference that is not of the accepted form is reported
\* by buildHuggingFaceState as "invalid huggingface source".
C9_EveryRejectionIsInvalidSource ==
    (BuiltHF /\ ~WellFormed(resolveArgs.source)) =>
        /\ ~srcState.ok
        /\ StartsWith(srcState.err, "invalid huggingface source")

\* C9: ParseHuggingFaceSpec accepts exactly the references
\* huggingface://<namespace>/<model>[(@|:)<revision>][/<subpath>] with a
\* non-empty namespace and model and returns their parts, the revision being
\* "main" when omitted and the text after "@" or ":" otherwise; it rejects
\* every other reference.  buildHuggingFaceState reports a rejected reference
\* that starts with huggingface:// as "invalid huggingface source" and one that
\* does not as "not a huggingface source".
C9_ParseGrammarAndErrors ==
    /\ Parsed =>
          IF WellFormed(resolveArgs.source)
          THEN /\ srcState.ok
               /\ Cardinality(Splits(AfterPrefix(resolveArgs.source))) = 1
               /\ \A f \in {"Namespace", "Model", "Revision", "SubPath"} :
                     srcState[f] = Parts(resolveArgs.source)[f]
               /\ srcState.Namespace # "" /\ srcState.Model # ""
          ELSE ~srcState.ok
    /\ BuiltHF =>
          IF WellFormed(resolveArgs.source)
          THEN IsHFDownload(SnapshotLine(Parts(resolveArgs.source), FlagsOf(resolveArgs.exclude)))
          ELSE /\ ~srcState.ok
               /\ IF IsHFSource(resolveArgs.source)
                  THEN StartsWith(srcState.err, "invalid huggingface source")
                  ELSE StartsWith(srcState.err, "not a huggingface source")

\* a reference with a ":" revision and a subpath has been parsed into its parts
C9_Witness ==
    /\ Parsed
    /\ resolveArgs.source = "huggingface://org/model:rev123/path/file.bin"
    /\ srcState = [ok |-> TRUE, Namespace |-> "org", Model |-> "model",
                   Revision |-> "rev123", SubPath |-> "path/file.bin"]

\* a handler has run parseBuildConfig
ConfigParsed == entry \in {"BuildModelpack", "BuildGeneric"} /\ fpc # "entry"

SourceGiven == \E kv \in opts : kv[1] = "build-arg:source" /\ kv[2] # ""

ExcludeParsed == resolveArgs.called /\ entry = "parseExcludePatterns"

\* C11 as stated: parsing the re-quoted pair of any two patterns that contain
\* no single quote returns the two patterns.
C11_RequoteLeftInverse ==
    (ExcludeParsed /\ Len(resolveArgs.quoted) = 2) =>
        srcState.patterns = resolveArgs.quoted

PlainPattern(p) == p # "" /\ \A n \in 1..Len(p) : SubSeq(p, n, n) \notin {"'", "\""}

\* C11: for all non-empty patterns p1, p2 that contain neither quote character,
\* parseExcludePatterns("'" + p1 + "' '" + p2 + "'") returns exactly [p1, p2].
C11_RequoteLeftInversePlain ==
    (/\ ExcludeParsed
     /\ Len(resolveArgs.quoted) = 2
     /\ resolveArgs.exclude
           = "'" \o resolveArgs.quoted[1] \o "' '" \o resolveArgs.quoted[2] \o "'"
     /\ PlainPattern(resolveArgs.quoted[1])
     /\ PlainPattern(resolveArgs.quoted[2])) =>
        srcState.patterns = resolveArgs.quoted

\* the parser returned the two patterns of a re-quoted pair
C11_Witness ==
    /\ ExcludeParsed
    /\ resolveArgs.exclude = "'a/' '*a'"
    /\ resolveArgs.quoted = <<"a/", "*a">>
    /\ srcState.patterns = <<"a/", "*a">>

\* C12: parseExcludePatterns is a one-flag scanner: either quote character
\* toggles the flag whichever character opened the run; the characters of a
\* quoted run form a token and the characters outside are discarded; a run is
\* returned only if it is non-empty, also when the input ends inside it; so
\* empty runs and blank input give no token, and tokens come in input order.
C12_OneFlagScanner ==
    ExcludeParsed =>
        /\ srcState.patterns = TokensOf(resolveArgs.exclude)
        /\ \A k \in 1..Len(srcState.patterns) :
              /\ srcState.patterns[k] # ""
              /\ PlainPattern(srcState.patterns[k])
        /\ QuotePositions(resolveArgs.exclude) = {} => srcState.patterns = <<>>

\* a run opened by a single quote and closed by a double quote was returned,
\* and the text after the closing quote was discarded
C12_Witness ==
    /\ ExcludeParsed
    /\ resolveArgs.exclude = "'it\"s'"
    /\ srcState.patterns = <<"it">>

\* generateHFDownloadScript was called directly and returned its script
ScriptGenerated == resolveArgs.called /\ entry = "generateHFDownloadScript"

\* the number of places of text s where x occurs
Occurrences(s, x) ==
    Cardinality({n \in 1..(Len(s) - Len(x) + 1) : SubSeq(s, n, n + Len(x) - 1) = x})

\* the download line of a snapshot script for ns/model at revision rev
DownloadLine(ns, model, rev, flags) ==
    "\nhf download " \o ns \o "/" \o model \o " --revision " \o rev
    \o " --local-dir /out" \o flags \o "\n"

HasSnapshotScript == ScriptGenerated \/ (BuiltHF /\ srcState.ok)

SnapshotScript ==
    IF entry = "generateHFDownloadScript" THEN srcState.script
    ELSE srcState.st.from.args[3]

\* the tokens from the k-th on, each in single quotes, separated by single spaces
RECURSIVE QuotedFrom(_, _)
QuotedFrom(tokens, k) ==
    IF k > Len(tokens) THEN ""
    ELSE (IF k > 1 THEN " " ELSE "") \o "'" \o tokens[k] \o "'" \o QuotedFrom(tokens, k + 1)

\* e is one or several single-quoted patterns separated by single spaces
IsQuotedList(e) == TokensOf(e) # <<>> /\ e = QuotedFrom(TokensOf(e), 1)

IsSingleFileSource(s) == WellFormed(s) /\ Parts(s).SubPath # ""

\* the graph of a single-file download, from the parts of the reference alone
SingleFileGraph(p) ==
    [ok |-> TRUE,
     st |-> [op |-> "copy",
             from |-> [op |-> "run", image |-> "ghcr.io/kaito-project/aikit/hf-cli:latest",
                       args |-> <<"bash", "-c",
                                  hfScriptHead \o SingleFileLine(p) \o "\n" \o hfScriptTail>>,
                       secret |-> [path |-> "/run/secrets/hf-token", id |-> "hf-token",
                                   optional |-> TRUE]],
             src |-> "/out/", dest |-> "/", copyDirContentsOnly |-> TRUE]]

\* C15: the exclude option influences only Hugging Face snapshot downloads: for
\* a local, an HTTP and a Hugging Face single-file source the graph returned by
\* resolveSourceState is determined by the source, the session and
\* preserveHTTPFilename alone, whatever exclude is, and the single-file script
\* holds no --exclude flag.
C15_ExcludeOnlyInSnapshots ==
    Resolved =>
        IF ~IsHFSource(resolveArgs.source)
        THEN NonHFVariant(resolveArgs)
        ELSE IsSingleFileSource(resolveArgs.source) =>
                /\ srcState = SingleFileGraph(Parts(resolveArgs.source))
                /\ ~Contains(srcState.st.from.args[3], "--exclude")

\* a single-file source was resolved with a non-empty exclude option
C15_Witness ==
    /\ Resolved
    /\ resolveArgs.source = "huggingface://org/model@rev123/path/file.bin"
    /\ resolveArgs.exclude = "'original/*' 'metal/*'"
    /\ srcState.ok
    /\ Contains(srcState.st.from.args[3],
                "\nhf download org/model path/file.bin --revision rev123 --local-dir /out\n")

\* C16: a finished Generic run in raw mode gives every layer the media type
\* application/octet-stream, and in an archive mode has one layer whose media
\* type names the compression used: application/vnd.oci.image.layer.v1.tar
\* for tar, ...tar+gzip for tar+gzip, ...tar+zstd for tar+zstd.
C16_GenericMediaTypes ==
    (Finished /\ flavor = "generic" /\ Enumerated # {}) =>
        IF packMode = "raw"
        THEN \A k \in 1..Len(ManifestLayers) :
                ManifestLayers[k].mediaType = "application/octet-stream"
        ELSE /\ Len(ManifestLayers) = 1
             /\ ManifestLayers[1].mediaType
                   = CASE packMode = "tar" -> "application/vnd.oci.image.layer.v1.tar"
                       [] packMode = "tar+gzip" -> "application/vnd.oci.image.layer.v1.tar+gzip"
                       [] packMode = "tar+zstd" -> "application/vnd.oci.image.layer.v1.tar+zstd"

\* the value the handler was given for build argument k, "" when absent
ArgGiven(k) ==
    IF \E kv \in opts : kv[1] = "build-arg:" \o k
    THEN (CHOOSE kv \in opts : kv[1] = "build-arg:" \o k)[2]
    ELSE ""

\* C17: every configuration returned by parseBuildConfig has packMode in
\* {raw, tar, tar+gzip, tar+zstd}: raw when layer_packaging is absent or
\* empty, and otherwise the supplied value.
C17_PackModeInSet ==
    (ConfigParsed /\ cfg.set) =>
        /\ cfg.packMode \in {"raw", "tar", "tar+gzip", "tar+zstd"}
        /\ cfg.packMode = IF ArgGiven("layer_packaging") = "" THEN "raw"
                          ELSE ArgGiven("layer_packaging")

NamesDetermined == entry = "determineName" /\ fpc = "returned"

\* C18: for every option map, the empty one included, name is the name build
\* argument when it is non-empty and "aikitmodel" otherwise, and refName is
\* the name build argument when it is non-empty and "latest" otherwise; so the
\* two differ exactly when no non-empty name was supplied, and refName depends
\* on no other option.  The configuration a handler parses carries the same.
C18_NameAndRefName ==
    /\ NamesDetermined =>
          /\ srcState.name = IF ArgGiven("name") # "" THEN ArgGiven("name") ELSE "aikitmodel"
          /\ srcState.refName = IF ArgGiven("name") # "" THEN ArgGiven("name") ELSE "latest"
          /\ srcState.name # srcState.refName <=> ArgGiven("name") = ""
    /\ (ConfigParsed /\ cfg.set) =>
          /\ cfg.name = IF ArgGiven("name") # "" THEN ArgGiven("name") ELSE "aikitmodel"
          /\ cfg.refName = IF ArgGiven("name") # "" THEN ArgGiven("name") ELSE "latest"

\* the names were determined for the empty option map
C18_Witness ==
    /\ NamesDetermined
    /\ opts = {}
    /\ srcState.name = "aikitmodel"
    /\ srcState.refName = "latest"

IndexWritten == index.written /\ index.complete

\* C19: for both flavors and every pack mode, the index.json the script wrote
\* has exactly one manifest entry, and its annotations read exactly
\* title = the configured name and ref.name = the configured refName.
C19_IndexAnnotations ==
    IndexWritten =>
        /\ Len(index.data.manifests) = 1
        /\ index.data.manifests[1].annotations = [title |-> name, refName |-> refName]

\* C20: with a PACK_MODE outside {raw, tar, tar+gzip, tar+zstd} the script of
\* either flavor, on every source tree (the empty one included), writes no
\* blob, no manifest and no index.json, and does not run to its end.
C20_UnknownPackModeFailsFast ==
    packMode \notin PackModes =>
        /\ DOMAIN blobs = {}
        /\ ~manifest.written
        /\ ~index.written
        /\ pc # "done"

\* C21: in both flavors the manifest is validated after it is constructed and
\* before it is written as a blob or referenced from index.json: the script
\* reaches the digest-and-copy of the manifest only from the validation, and
\* a failed validation leaves neither the manifest blob nor index.json.
C21_ManifestValidatedBeforeBlob ==
    [][/\ (pc # "manifest_blob" /\ pc' = "manifest_blob") => pc = "validate"
       /\ (pc = "validate" /\ pc' = "failed") =>
              /\ Sha256(manifest.data) \notin DOMAIN blobs'
              /\ ~index'.written]_vars

\* a handler resolved its source and built the graph it hands to the solve
GraphBuilt == entry \in {"BuildModelpack", "BuildGeneric"} /\ graph.op = "copy"

\* the graph copies out of a run of the assembler script in the bash image
RunsAssembler(g) ==
    /\ g.from.op = "run"
    /\ g.from.image = "cgr.dev/chainguard/bash:latest"
    /\ g.from.script.generator \in {"generateModelpackScript", "generateGenericScript"}

\* C22: BuildGeneric with generic_output_mode = "files" builds a graph that
\* only copies the resolved source state into an empty filesystem, with no
\* assembler run; for every other value the assembler runs on the resolved
\* state.  BuildModelpack always runs the assembler, whatever the option is.
C22_FilesModeSkipsAssembler ==
    GraphBuilt =>
        IF entry = "BuildGeneric" /\ ArgGiven("generic_output_mode") = "files"
        THEN /\ graph = [op |-> "copy", customName |-> "packager:generic-files",
                         from |-> srcState.st, src |-> "/", dest |-> "/"]
             /\ ~RunsAssembler(graph)
        ELSE /\ RunsAssembler(graph)
             /\ graph.from.mount = [target |-> "/src", state |-> srcState.st,
                                    readonly |-> TRUE]
             /\ graph.src = "/layout/"
             /\ graph.from.script.generator =
                    IF entry = "BuildModelpack" THEN "generateModelpackScript"
                    ELSE "generateGenericScript"

\* BuildGeneric in files mode submitted the copy of a Hugging Face download
C22_Witness ==
    /\ GraphBuilt
    /\ entry = "BuildGeneric"
    /\ fpc = "solving"
    /\ ArgGiven("generic_output_mode") = "files"
    /\ graph.from = srcState.st
    /\ srcState.st.op = "copy"

\* the generated script has the line set -x: only generateGenericScript takes
\* a debug argument and writes the line for it
ShellTracing(script) == "debug" \in DOMAIN script /\ script.debug

\* C23: debug is true iff the debug build argument equals "1", and the
\* assembler script of either target contains set -x exactly when it is true.
C23_DebugEnablesTracing ==
    (GraphBuilt /\ RunsAssembler(graph)) =>
        /\ cfg.debug <=> ArgGiven("debug") = "1"
        /\ ShellTracing(graph.from.script) <=> cfg.debug

\* C24: on the same options and session BuildModelpack does what BuildGeneric
\* does, apart from the artifact type, the layer media types, the script and
\* generic_output_mode: it parses the same configuration, resolves the same
\* source graph for the source string, and treats the debug option alike.
C24_HandlersParallel ==
    (entry = "BuildModelpack" /\ fpc # "entry" /\ cfg.set) =>
        \E generic \in {parseBuildConfig(opts, session, FALSE).cfg} :
            /\ [cfg EXCEPT !.genericOutputMode = generic.genericOutputMode] = generic
            /\ srcState = resolveSourceState(generic.source, generic.sessionID, FALSE,
                                             generic.exclude)
            /\ GraphBuilt => (ShellTracing(graph.from.script) <=> generic.debug)

HandlerReturned == entry \in {"BuildModelpack", "BuildGeneric"} /\ fpc = "returned"

\* C25: every result a handler returns successfully, the generic files mode
\* included, carries the image config os = linux, architecture = amd64,
\* rootfs.type = layers with an empty diff_ids list, and the single
\* reference the solve of the submitted graph gave.
C25_ResultCarriesImageConfig ==
    (HandlerReturned /\ ret.kind = "result") =>
        /\ ret.config = [os |-> "linux", architecture |-> "amd64",
                         rootfs |-> [type |-> "layers", diff_ids |-> <<>>]]
        /\ ret.ref = graph
        /\ solves = 1

\* BuildGeneric returned a result in files mode
C25_Witness ==
    /\ HandlerReturned
    /\ entry = "BuildGeneric"
    /\ ret.kind = "result"
    /\ graph.customName = "packager:generic-files"

BackendSelected == entry = "getBackendTag" /\ fpc = "returned"

\* the runtime class and the backend a tag names
SelectionOfTag(tag) ==
    IF StartsWith(tag, "sha-1a0d06f-gpu-nvidia-cuda-12-")
    THEN <<"cuda", SubSeq(tag, Len("sha-1a0d06f-gpu-nvidia-cuda-12-") + 1, Len(tag))>>
    ELSE IF StartsWith(tag, "sha-1a0d06f-cpu-")
    THEN <<"cpu", SubSeq(tag, Len("sha-1a0d06f-cpu-") + 1, Len(tag))>>
    ELSE <<"none", tag>>

\* the runtime class and the backend a backend directory name names
SelectionOfName(n) ==
    IF StartsWith(n, "cuda12-") THEN <<"cuda", SubSeq(n, Len("cuda12-") + 1, Len(n))>>
    ELSE IF StartsWith(n, "cpu-") THEN <<"cpu", SubSeq(n, Len("cpu-") + 1, Len(n))>>
    ELSE <<"none", n>>

\* C26: for every backend, runtime and architecture the tag and the name
\* select the same runtime class and backend; the Apple Silicon runtime gives
\* CPU llama-cpp whatever is requested; a CUDA variant is chosen exactly when
\* the runtime is NVIDIA and the architecture amd64, and everything else is a
\* CPU variant; an unrecognised or empty backend gives llama-cpp.
C26_TagAndNameAgree ==
    BackendSelected =>
        \E sel \in {SelectionOfTag(srcState.tag)} :
            /\ sel = SelectionOfName(srcState.name)
            /\ sel[1] \in {"cuda", "cpu"}
            /\ sel[2] \in {"llama-cpp", "exllama2", "diffusers"}
            /\ resolveArgs.runtime = "applesilicon" => sel = <<"cpu", "llama-cpp">>
            /\ sel[1] = "cuda" <=> /\ resolveArgs.runtime = "cuda"
                                   /\ resolveArgs.platform.Architecture = "amd64"
            /\ resolveArgs.backend \notin {"llama-cpp", "exllama2", "diffusers"}
                   => sel[2] = "llama-cpp"
            /\ sel[2] # "llama-cpp" => sel[2] = resolveArgs.backend

\* the NVIDIA runtime on arm64 with exllama2 requested gave the CPU variant
C26_Witness ==
    /\ BackendSelected
    /\ resolveArgs.backend = "exllama2"
    /\ resolveArgs.runtime = "cuda"
    /\ resolveArgs.platform.Architecture = "arm64"
    /\ srcState.name = "cpu-exllama2"
    /\ srcState.tag = "sha-1a0d06f-cpu-exllama2"

\* the stage of the assembler a position of the script belongs to:
\* init, enumerating, classifying, layering, manifest, index, marker, done
Stage(p) ==
    CASE p = "init" -> 0
      [] p = "stat" -> 1
      [] p \in {"classify", "cut"} -> 2
      [] p = "layers" -> 3
      [] p \in {"config", "config_cp", "manifest", "validate", "manifest_blob",
                "manifest_cp"} -> 4
      [] p \in {"index", "index_wr"} -> 5
      [] p = "marker" -> 6
      [] p = "done" -> 7
      [] p = "failed" -> 8

\* the tar of the generic archive branch failed in this run and the script
\* went on (tar ... || true)
TarFailed ==
    /\ flavor = "generic"
    /\ packMode \in ArchiveModes
    /\ image.tarEmpty = "fails"
    /\ Stage(pc) \in 4..7

\* one step of a run moves forward through the stages, in the order manifest,
\* manifest blob, index.json, marker
StepsForward ==
    /\ pc \in {"done", "failed"} => pc' = pc
    /\ Stage(pc') >= Stage(pc)
    /\ (~manifest.written /\ manifest'.written) =>
           /\ Stage(pc) = 4
           /\ layers' = layers
           /\ flavor = "modelpack" => cat = Len(Categories)
    /\ (~index.written /\ index'.written) =>
           /\ Sha256(manifest.data) \in DOMAIN blobs
           /\ blobs[Sha256(manifest.data)].complete
    /\ (~marker /\ marker') => (index.written /\ index.complete /\ pc' = "done")
    /\ pc' = "done" => marker'

\* C27: within one run the assembler only moves forward through init,
\* enumerated, classified, layered, manifested, indexed, done: the manifest is
\* built only after every category has been processed, the manifest blob is
\* written before index.json and index.json before the oci-layout marker, no
\* earlier stage is entered again, and a failing command at any stage aborts
\* the script, so that done is never reached after a failure.
C27_ForwardOnlyAbortOnFailure ==
    [][prevOut' = prevOut =>
          /\ StepsForward
          /\ TarFailed' => pc' # "done"]_vars

\* C28: in one call of a handler an option error or a source-resolution
\* error is returned with no solve request made; on every path at most one
\* Solve call is made; a marshal, solve or single-reference failure is
\* returned as a wrapped error, without a retry and without a result.
C28_ErrorsBeforeSolve ==
    entry \in {"BuildModelpack", "BuildGeneric"} =>
        /\ solves <= 1
        /\ fpc = "solving" => solves = 1
        /\ HandlerReturned =>
              /\ ret.kind \in {"error", "result"}
              /\ (~cfg.set \/ ~srcState.ok) =>
                    /\ ret.kind = "error"
                    /\ solves = 0
                    /\ graph.op = "none"
                    /\ \/ StartsWith(ret.msg, "source is required for ")
                       \/ StartsWith(ret.msg, "failed to resolve ")
              /\ (cfg.set /\ srcState.ok /\ ret.kind = "error") =>
                    \/ /\ solves = 0
                       /\ StartsWith(ret.msg, "failed to marshal " \o graph.customName)
                    \/ /\ solves = 1
                       /\ \/ StartsWith(ret.msg, "failed to solve " \o graph.customName)
                          \/ StartsWith(ret.msg, "failed to get " \o graph.customName)
              /\ ret.kind = "result" => (solves = 1 /\ cfg.set /\ srcState.ok)

\* a handler returned a source-resolution error without a solve request
C28_Witness ==
    /\ HandlerReturned
    /\ cfg.set
    /\ ~srcState.ok
    /\ ret.kind = "error"
    /\ StartsWith(ret.msg, "failed to resolve ")
    /\ solves = 0

\* the lines the stat pass produces for the mounted tree, as the sort reads them
StatLinesOf(tree) ==
    IF flavor = "modelpack" THEN {StatLine(p) : p \in FindFiles(tree)}
    ELSE {SedStrip(StatLine(p)) : p \in FindFiles(tree)}

\* C29: the stat workers are the only step whose order varies, and whatever
\* the order their lines arrived in, the sort leaves the LC_ALL=C sorted list
\* of the tree's lines, which stays as it is while classification, layers and
\* digests are driven from it; up to the completion of the sort no digest has
\* been computed and no layer record appended.
C29_SortedWhateverTheInterleaving ==
    [][/\ (pc = "stat" /\ pc' \in {"classify", "cut"}) =>
              sorted' = SortLines(StatLinesOf(src))
       /\ (pc \notin {"init", "stat"} /\ pc' \notin {"init", "failed"}) =>
              sorted' = sorted
       /\ pc' \in {"init", "stat", "classify", "cut"} =>
              /\ layers' = <<>>
              /\ blobs' = <<>>
              /\ ~manifest'.written]_vars

\* the workers finished in an order that is not the sorted one, and layers
\* were built from the list
C29_Witness ==
    /\ Finished
    /\ Len(emitted) = 2
    /\ ByteLess(emitted[2], emitted[1])
    /\ Len(layers) = 2

\* the byte size of a file of the tree, as stat prints it
StatSize(f) == ToString(ByteSize(ContentOf(f)))

\* C30: in the ModelPack script the size cache is a function from path to
\* size, also when one enumerated path is a suffix of another: the size in
\* each per-file metadata annotation is that file's byte size, and the size
\* in each aggregated category annotation is the sum of the byte sizes of the
\* category's files.
C30_CachedSizeOfExactPath ==
    flavor = "modelpack" =>
        \A k \in 1..Len(layers) :
            \E a \in {layers[k].annotations} :
                IF "files" \in DOMAIN a.metadata
                THEN a.metadata.size =
                        ToString(SumSeq([j \in 1..Len(lists[a.filepath]) |->
                                            ByteSize(ContentOf(lists[a.filepath][j]))]))
                ELSE a.metadata.size = StatSize(a.filepath)
====
